---- MODULE Spec2Model ----
(***************************************************************************)
(* A model of markdown-svg (mdsvg): the Markdown parser (parser.py), the   *)
(* AST data model (types.py), the heuristic text measurement and wrapping  *)
(* (measure.py) and the block layout of the SVG renderer (renderer.py).    *)
(*                                                                         *)
(* Text is a sequence of one-character strings, positions are 1-based      *)
(* (Python's are 0-based), and an Optional value is None or Some(v).       *)
(***************************************************************************)
EXTENDS Integers, Sequences, FiniteSets, TLC

VARIABLES
    md_text,      \* parse: the text argument
    md_lines,     \* _parse_blocks: lines
    md_i,         \* _parse_blocks: i (1-based index of the next line)
    md_blocks,    \* _parse_blocks: blocks
    md_pc,        \* "start" | "loop" | "done" | "hung" | "raised"
    md_last,      \* what the last loop iteration of _parse_blocks did
    in_text,      \* _parse_inline: the text argument
    in_remaining, \* _parse_inline: remaining
    in_spans,     \* _parse_inline: spans
    in_pc,        \* "start" | "loop" | "done" | "raised"
    in_last,      \* what the last loop iteration of _parse_inline did
    ty_call,      \* the constructor call made last: class and arguments
    ty_result,    \* what it raised ("none" when it returned) and the object
    wr_text,      \* wrap_text: the text argument
    wr_max,       \* wrap_text: max_width
    wr_mono,      \* wrap_text: is_mono
    wr_k,         \* wrap_text: 1-based index of the next word of words
    wr_lines,     \* wrap_text: lines
    wr_current,   \* wrap_text: current_line
    wr_width,     \* wrap_text: current_width
    wr_pc,        \* "start" | "loop" | "done"
    wr_last,      \* what the last loop iteration of wrap_text did
    wr_measurer,  \* create_precise_wrapper: the measurer (None in a direct wrap_text call)
    rn_doc,       \* render / measure: blocks
    rn_width,     \* render / measure: width
    rn_padding,   \* render / measure: padding
    rn_style,     \* the style of the renderer
    rn_rendered,  \* what render did last on these arguments
    rn_measured,  \* what measure did last on these arguments
    im_config,    \* per renderer instance: fetch_image_sizes and the style
    im_cache,     \* per renderer instance: _image_size_cache
    im_lookups,   \* per renderer instance and URL: the calls of get_image_size so far
    im_requests,  \* the calls of _render_image_block so far
    im_last,      \* what the last call of _render_image_block did
    ms_args,      \* SVGRenderer(...): the font arguments, and the system's default measurer
    ms_self,      \* the renderer's _measurer, _mono_measurer and _mono_char_width
    ms_pc,        \* "new" | "ready"
    ms_calls,     \* the calls of FontMeasurer.measure so far
    ms_count,     \* the calls of _measure_text so far
    ms_last,      \* what the last call of _measure_text did
    mg_styles,    \* merge_styles(*styles): the argument
    mg_pc,        \* "idle" | "loop" | "done"
    mg_i,         \* the style the loop is at
    mg_kwargs,    \* result_kwargs
    mg_result,    \* the Style returned
    mp_mapper,    \* the image_url_mapper of the renderer
    mp_pc,        \* "new" | "ready"
    mp_count,     \* the calls of _map_image_url so far
    mp_last,      \* what the last call of _map_image_url did
    ly_call,      \* render or measure, with blocks, width, padding and the style of the renderer
    ly_ctx,       \* ctx
    ly_pc,        \* "new" | "loop" | "done" | "raised"
    ly_k,         \* 1-based index of the next block
    ly_current_y, \* current_y
    ly_placed,    \* per block handled: the context it was given and the height it returned
    ly_total,     \* total_height, resp. the height of the Size
    rw_spans,     \* _render_text_block: the spans
    rw_max,       \* _wrap_runs: max_width
    rw_k,         \* _wrap_runs: 1-based index of the run of the outer loop
    rw_i,         \* _wrap_runs: 1-based index of the word of the inner loop
    rw_ws,        \* _wrap_runs: lines and current_width
    rw_pc,        \* "new" | "loop" | "done"
    rw_last,      \* what the last iteration of the inner loop did
    cw_call,      \* the code block, width and style of the call of _render_code_block_wrapped
    cw_max_chars, \* max_chars
    cw_lines,     \* code.code.split("\n")
    cw_k,         \* the source line the wrap loop is at
    cw_wrapped,   \* wrapped_lines, each with the source line it was cut from
    cw_pc,        \* "off", "start", "loop", "done"
    cw_result,    \* what the call returned
    tb_call,      \* the table, ctx.x, ctx.width and style of the call of _render_table
    tb_col_width, \* col_width
    tb_k,         \* the row _render_table is at: 0 the header, then the body rows
    tb_cells,     \* the cells rendered: row, idx, x, text_x, anchor
    tb_pc,        \* "off", "start", "rows", "done"
    tb_result     \* what the call returned

parserVars == <<md_text, md_lines, md_i, md_blocks, md_pc, md_last>>
inlineVars == <<in_text, in_remaining, in_spans, in_pc, in_last>>
typesVars == <<ty_call, ty_result>>
wrapVars == <<wr_text, wr_max, wr_mono, wr_k, wr_lines, wr_current, wr_width, wr_pc, wr_last,
              wr_measurer>>
renderVars == <<rn_doc, rn_width, rn_padding, rn_style, rn_rendered, rn_measured>>
imageVars == <<im_config, im_cache, im_lookups, im_requests, im_last>>
measurerVars == <<ms_args, ms_self, ms_pc, ms_calls, ms_count, ms_last>>
mergeVars == <<mg_styles, mg_pc, mg_i, mg_kwargs, mg_result>>
mapperVars == <<mp_mapper, mp_pc, mp_count, mp_last>>
layoutVars == <<ly_call, ly_ctx, ly_pc, ly_k, ly_current_y, ly_placed, ly_total>>
runsVars == <<rw_spans, rw_max, rw_k, rw_i, rw_ws, rw_pc, rw_last>>
codeVars == <<cw_call, cw_max_chars, cw_lines, cw_k, cw_wrapped, cw_pc, cw_result>>
tableVars == <<tb_call, tb_col_width, tb_k, tb_cells, tb_pc, tb_result>>
vars == <<parserVars, inlineVars, typesVars, wrapVars, renderVars, imageVars, measurerVars,
          mergeVars, mapperVars, layoutVars, runsVars, codeVars, tableVars>>

\* the variables of the other parts, which a step of one part leaves alone
notParser == <<inlineVars, typesVars, wrapVars, renderVars, imageVars, measurerVars, mergeVars,
               mapperVars, layoutVars, runsVars, codeVars, tableVars>>
notInline == <<parserVars, typesVars, wrapVars, renderVars, imageVars, measurerVars, mergeVars,
               mapperVars, layoutVars, runsVars, codeVars, tableVars>>
notTypes == <<parserVars, inlineVars, wrapVars, renderVars, imageVars, measurerVars, mergeVars,
              mapperVars, layoutVars, runsVars, codeVars, tableVars>>
notWrap == <<parserVars, inlineVars, typesVars, renderVars, imageVars, measurerVars, mergeVars,
             mapperVars, layoutVars, runsVars, codeVars, tableVars>>
notRender == <<parserVars, inlineVars, typesVars, wrapVars, imageVars, measurerVars, mergeVars,
               mapperVars, layoutVars, runsVars, codeVars, tableVars>>
notImages == <<parserVars, inlineVars, typesVars, wrapVars, renderVars, measurerVars, mergeVars,
               mapperVars, layoutVars, runsVars, codeVars, tableVars>>
notMeasurer == <<parserVars, inlineVars, typesVars, wrapVars, renderVars, imageVars, mergeVars,
                 mapperVars, layoutVars, runsVars, codeVars, tableVars>>
notMerge == <<parserVars, inlineVars, typesVars, wrapVars, renderVars, imageVars, measurerVars,
              mapperVars, layoutVars, runsVars, codeVars, tableVars>>
notMapper == <<parserVars, inlineVars, typesVars, wrapVars, renderVars, imageVars, measurerVars,
               mergeVars, layoutVars, runsVars, codeVars, tableVars>>
notLayout == <<parserVars, inlineVars, typesVars, wrapVars, renderVars, imageVars, measurerVars,
               mergeVars, mapperVars, runsVars, codeVars, tableVars>>
notRuns == <<parserVars, inlineVars, typesVars, wrapVars, renderVars, imageVars, measurerVars,
             mergeVars, mapperVars, layoutVars, codeVars, tableVars>>
notCode == <<parserVars, inlineVars, typesVars, wrapVars, renderVars, imageVars, measurerVars,
             mergeVars, mapperVars, layoutVars, runsVars, tableVars>>
notTable == <<parserVars, inlineVars, typesVars, wrapVars, renderVars, imageVars, measurerVars,
              mergeVars, mapperVars, layoutVars, runsVars, codeVars>>

-----------------------------------------------------------------------------
(* Optional values and small helpers *)

None == [some |-> FALSE]
Some(v) == [some |-> TRUE, val |-> v]

Min(S) == CHOOSE m \in S : \A n \in S : m <= n
Max(S) == CHOOSE m \in S : \A n \in S : m >= n

\* the characters of s from position p to the end (s[p-1:] in Python)
From(s, p) == SubSeq(s, p, Len(s))

\* s has the literal lit at position p
HasAt(s, p, lit) == /\ p >= 1
                    /\ p + Len(lit) - 1 <= Len(s)
                    /\ SubSeq(s, p, p + Len(lit) - 1) = lit

\* length of the maximal run of characters of S (resp. not of S) starting at p
RunIn(s, p, S) ==
    IF p > Len(s) THEN 0
    ELSE Min({k \in p..(Len(s) + 1) : k = Len(s) + 1 \/ s[k] \notin S}) - p
RunNotIn(s, p, S) ==
    IF p > Len(s) THEN 0
    ELSE Min({k \in p..(Len(s) + 1) : k = Len(s) + 1 \/ s[k] \in S}) - p

RECURSIVE Concat(_)
Concat(ss) == IF ss = <<>> THEN <<>> ELSE Head(ss) \o Concat(Tail(ss))

\* sep.join(parts)
RECURSIVE Join(_, _)
Join(parts, sep) ==
    IF parts = <<>> THEN <<>>
    ELSE IF Len(parts) = 1 THEN parts[1]
    ELSE parts[1] \o sep \o Join(Tail(parts), sep)

\* s.split(sep_char): the pieces between the occurrences of one character
RECURSIVE SplitOn(_, _)
SplitOn(s, c) ==
    LET n == RunNotIn(s, 1, {c})
    IN IF n = Len(s) THEN <<s>>
       ELSE <<SubSeq(s, 1, n)>> \o SplitOn(From(s, n + 2), c)

-----------------------------------------------------------------------------
(* Character classes of the regular expressions, on the model's alphabet *)

\* the backtick character, which a TLA+ string cannot hold
Backtick == "backtick"

Space == {" ", "\t", "\n", "\r"}
Digit == {"0", "1", "2", "3", "4", "5", "6", "7", "8", "9"}
Upper == {"A", "B", "C", "D", "E", "G", "H", "I", "M", "T", "W"}
Lowercase == {"a", "b", "c", "d", "e", "g", "h", "i", "j", "l", "m", "t", "u", "w", "x"}
WordChar == Upper \cup Lowercase \cup Digit \cup {"_"}

\* str.lower on one character
LowerChar(c) ==
    CASE c = "A" -> "a" [] c = "B" -> "b" [] c = "C" -> "c" [] c = "D" -> "d"
      [] c = "E" -> "e" [] c = "G" -> "g" [] c = "H" -> "h" [] c = "I" -> "i"
      [] c = "M" -> "m" [] c = "T" -> "t" [] c = "W" -> "w" [] OTHER -> c
Lower(s) == [k \in 1..Len(s) |-> LowerChar(s[k])]

\* str.strip / str.lstrip: drop the whitespace at both ends / at the left end
LStrip(s) == From(s, 1 + RunIn(s, 1, Space))
RStrip(s) ==
    LET keep == {k \in 0..Len(s) : k = 0 \/ s[k] \notin Space}
    IN SubSeq(s, 1, Max(keep))
Strip(s) == LStrip(RStrip(s))

\* "not s" in place of "not s.strip()"
IsBlankEmptyOnly(s) == s = <<>>

\* "not s.strip()"
IsBlank(s) == Strip(s) = <<>>

\* str.split() with no argument: the maximal runs of non-whitespace
RECURSIVE SplitWs(_)
SplitWs(s) ==
    LET t == LStrip(s)
        n == RunNotIn(t, 1, Space)
    IN IF t = <<>> THEN <<>> ELSE <<SubSeq(t, 1, n)>> \o SplitWs(From(t, n + 1))

normalize_whitespace(text) == Join(SplitWs(text), <<" ">>)

\* text.replace("\r\n", "\n").replace("\r", "\n")
RECURSIVE NormalizeNewlines(_)
NormalizeNewlines(s) ==
    IF s = <<>> THEN <<>>
    ELSE IF HasAt(s, 1, <<"\r", "\n">>) THEN <<"\n">> \o NormalizeNewlines(From(s, 3))
    ELSE IF s[1] = "\r" THEN <<"\n">> \o NormalizeNewlines(Tail(s))
    ELSE <<s[1]>> \o NormalizeNewlines(Tail(s))

split_lines(text) == SplitOn(NormalizeNewlines(text), "\n")

\* int(digits)
DigitVal(c) ==
    CASE c = "0" -> 0 [] c = "1" -> 1 [] c = "2" -> 2 [] c = "3" -> 3 [] c = "4" -> 4
      [] c = "5" -> 5 [] c = "6" -> 6 [] c = "7" -> 7 [] c = "8" -> 8 [] c = "9" -> 9
RECURSIVE ToInt(_)
ToInt(ds) == IF ds = <<>> THEN 0 ELSE 10 * ToInt(SubSeq(ds, 1, Len(ds) - 1)) + DigitVal(ds[Len(ds)])

-----------------------------------------------------------------------------
(* types.py: the data model.  A constructor returns the object and the    *)
(* exception it raised ("none" when it returned).                          *)

\* "not url" for an Optional[str]
Falsy(opt) == ~opt.some \/ opt.val = <<>>

SpanTypes == {"text", "bold", "italic", "bold_italic", "code", "link", "image"}

\* Span.__post_init__
SpanRaises(span_type, url) ==
    \/ span_type = "link" /\ Falsy(url)
    \/ span_type = "image" /\ Falsy(url)

Span(text, span_type, url, title) ==
    [raised |-> IF SpanRaises(span_type, url) THEN "ValueError" ELSE "none",
     obj |-> [text |-> text, span_type |-> span_type, url |-> url, title |-> title]]

\* Span(text=...) with the defaults
PlainSpan(text) == Span(text, "text", None, None)

\* a validation that lets level 0 through
HeadingRaisesFromZero(level) == ~(0 <= level /\ level <= 6)

\* Heading.__post_init__
HeadingRaises(level) == ~(1 <= level /\ level <= 6)

Heading(level, spans) ==
    [raised |-> IF HeadingRaises(level) THEN "ValueError" ELSE "none",
     obj |-> [block_type |-> "heading", level |-> level, spans |-> spans]]

Paragraph(spans) == [block_type |-> "paragraph", spans |-> spans]
CodeBlock(code, language) == [block_type |-> "code_block", code |-> code, language |-> language]
Blockquote(inner) == [block_type |-> "blockquote", blocks |-> inner]
ListItem(spans) == [block_type |-> "list_item", spans |-> spans, nested_list |-> None]
UnorderedList(items) == [block_type |-> "unordered_list", items |-> items]
OrderedList(items, start) == [block_type |-> "ordered_list", items |-> items, start |-> start]
HorizontalRule == [block_type |-> "horizontal_rule"]
TableCell(spans, is_header, align) == [spans |-> spans, is_header |-> is_header, align |-> align]
TableRow(cells) == [cells |-> cells]
Table(header, rows, alignments) ==
    [block_type |-> "table", header |-> header, rows |-> rows, alignments |-> alignments]

\* the fields the ImageBlock dataclass declares (block_type is init=False)
ImageBlockFields == {"url", "alt", "title"}

\* ImageBlock(**kw): the generated __init__ raises TypeError on a keyword that is
\* no field of the dataclass, and on a missing url
ImageBlock(kw) ==
    IF ~(DOMAIN kw \subseteq ImageBlockFields) \/ "url" \notin DOMAIN kw
    THEN [raised |-> "TypeError", obj |-> [block_type |-> "image"]]
    ELSE [raised |-> "none",
          obj |-> [block_type |-> "image", url |-> kw.url,
                   alt |-> IF "alt" \in DOMAIN kw THEN kw.alt ELSE <<>>,
                   title |-> IF "title" \in DOMAIN kw THEN kw.title ELSE None]]

-----------------------------------------------------------------------------
(* parser.py: the inline patterns.  A match is its start, the position    *)
(* after its end, and its groups.                                          *)

NoMatch == [ok |-> FALSE, start |-> 0, end |-> 0, g1 |-> <<>>, g2 |-> <<>>, g3 |-> None]
Match(start, end, g1, g2, g3) ==
    [ok |-> TRUE, start |-> start, end |-> end, g1 |-> g1, g2 |-> g2, g3 |-> g3]

\* pattern.search(s): the match at the leftmost position that has one
SearchWith(At(_, _), s) ==
    LET P == {p \in 1..Len(s) : At(s, p).ok}
    IN IF P = {} THEN NoMatch ELSE At(s, Min(P))

\* d(.+?)d at p: the shortest non-empty inner text followed by d; "." is no newline
LazyDelimAt(s, p, d) ==
    LET n == Len(d)
        E == {e \in (p + n + 1)..Len(s) : HasAt(s, e, d)}
    IN IF ~HasAt(s, p, d) \/ E = {} THEN NoMatch
       ELSE LET e == Min(E)
                inner == SubSeq(s, p + n, e - 1)
            IN IF \E k \in 1..Len(inner) : inner[k] = "\n" THEN NoMatch
               ELSE Match(p, e + n, inner, <<>>, None)

\* c([^c]+)c at p: the maximal run of other characters, closed by c
GreedyDelimAt(s, p, c) ==
    LET run == RunNotIn(s, p + 1, {c})
    IN IF HasAt(s, p, <<c>>) /\ run >= 1 /\ p + 1 + run <= Len(s)
       THEN Match(p, p + run + 2, SubSeq(s, p + 1, p + run), <<>>, None)
       ELSE NoMatch

\* first alternative that matches at p
FirstOf(m1, m2) == IF m1.ok THEN m1 ELSE m2

\* INLINE_CODE = BT([^BT]+)BT, where BT is the backtick
INLINE_CODE_At(s, p) == GreedyDelimAt(s, p, Backtick)
\* BOLD_ITALIC = \*\*\*(.+?)\*\*\*|___(.+?)___
BOLD_ITALIC_At(s, p) ==
    FirstOf(LazyDelimAt(s, p, <<"*", "*", "*">>), LazyDelimAt(s, p, <<"_", "_", "_">>))
\* BOLD = \*\*(.+?)\*\*|__(.+?)__
BOLD_At(s, p) == FirstOf(LazyDelimAt(s, p, <<"*", "*">>), LazyDelimAt(s, p, <<"_", "_">>))
\* ITALIC = \*([^*]+)\*|_([^_]+)_
ITALIC_At(s, p) == FirstOf(GreedyDelimAt(s, p, "*"), GreedyDelimAt(s, p, "_"))

Quote == {"\"", "'"}

NoTail == [ok |-> FALSE, url |-> <<>>, title |-> None, end |-> 0]

\* (?:\s+["']([^"']+)["'])?\) after a URL that ends before a: ws whitespace
\* characters, then tlen title characters after the opening quote
LinkTitleAt(s, u, a, ws, tlen) ==
    LET t == a + ws + 1                          \* first character of the title
        titled == /\ ws >= 1
                  /\ a + ws <= Len(s) /\ s[a + ws] \in Quote
                  /\ tlen >= 1
                  /\ t + tlen <= Len(s)          \* closed by a quote character
                  /\ HasAt(s, t + tlen + 1, <<")">>)
    IN IF titled
       THEN [ok |-> TRUE, url |-> SubSeq(s, u, a - 1),
             title |-> Some(SubSeq(s, t, t + tlen - 1)), end |-> t + tlen + 2]
       ELSE IF HasAt(s, a, <<")">>)
       THEN [ok |-> TRUE, url |-> SubSeq(s, u, a - 1), title |-> None, end |-> a + 1]
       ELSE NoTail

LinkSpaceAt(s, u, a, ws) == LinkTitleAt(s, u, a, ws, RunNotIn(s, a + ws + 1, Quote))

\* ([^)\s]+) of ulen characters from u on
LinkUrlAt(s, q, ulen) ==
    IF ~HasAt(s, q, <<"]", "(">>) \/ ulen < 1 THEN NoTail
    ELSE LinkSpaceAt(s, q + 2, q + 2 + ulen, RunIn(s, q + 2 + ulen, Space))

\* \]\(([^)\s]+)(?:\s+["']([^"']+)["'])?\) at q: [ok, url, title, end]
LinkTailAt(s, q) == LinkUrlAt(s, q, RunNotIn(s, q + 2, {")"} \cup Space))

LinkWith(s, p, tlen, tail) ==
    IF HasAt(s, p, <<"[">>) /\ tlen >= 1 /\ tail.ok
    THEN Match(p, tail.end, SubSeq(s, p + 1, p + tlen), tail.url, tail.title)
    ELSE NoMatch

LinkTextAt(s, p, tlen) == LinkWith(s, p, tlen, LinkTailAt(s, p + 1 + tlen))

\* LINK = \[([^\]]+)\]\(([^)\s]+)(?:\s+["']([^"']+)["'])?\)
LINK_At(s, p) == LinkTextAt(s, p, RunNotIn(s, p + 1, {"]"}))

ImageWith(s, p, alen, tail) ==
    IF HasAt(s, p, <<"!", "[">>) /\ tail.ok
    THEN Match(p, tail.end, SubSeq(s, p + 2, p + 1 + alen), tail.url, tail.title)
    ELSE NoMatch

ImageAltAt(s, p, alen) == ImageWith(s, p, alen, LinkTailAt(s, p + 2 + alen))

\* IMAGE = !\[([^\]]*)\]\(([^)\s]+)(?:\s+["']([^"']+)["'])?\)
IMAGE_At(s, p) == ImageAltAt(s, p, RunNotIn(s, p + 2, {"]"}))


-----------------------------------------------------------------------------
(* parser.py: _parse_inline *)

\* "<=" in place of "<": a later pattern takes a tie
ConsiderLater(cur, m, type) ==
    IF m.ok /\ m.start <= cur.pos THEN [pos |-> m.start, m |-> m, type |-> type] ELSE cur

\* one "if match and match.start() < earliest_pos" block
Consider(cur, m, type) ==
    IF m.ok /\ m.start < cur.pos THEN [pos |-> m.start, m |-> m, type |-> type] ELSE cur

\* the six searches of one loop iteration, in the order of the code
EarliestMatch(remaining) ==
    LET c0 == [pos |-> Len(remaining) + 1, m |-> NoMatch, type |-> "none"]
        c1 == Consider(c0, SearchWith(INLINE_CODE_At, remaining), "code")
        c2 == Consider(c1, SearchWith(IMAGE_At, remaining), "image")
        c3 == Consider(c2, SearchWith(LINK_At, remaining), "link")
        c4 == Consider(c3, SearchWith(BOLD_ITALIC_At, remaining), "bold_italic")
        c5 == Consider(c4, SearchWith(BOLD_At, remaining), "bold")
        c6 == Consider(c5, SearchWith(ITALIC_At, remaining), "italic")
    IN c6

\* "Process the match": the typed span of the match
MatchSpan(e) ==
    CASE e.type = "code" -> Span(e.m.g1, "code", None, None)
      [] e.type = "image" ->
            Span(IF e.m.g1 # <<>> THEN e.m.g1 ELSE e.m.g2, "image", Some(e.m.g2), e.m.g3)
      [] e.type = "link" -> Span(e.m.g1, "link", Some(e.m.g2), e.m.g3)
      [] e.type = "bold_italic" -> Span(e.m.g1, "bold_italic", None, None)
      [] e.type = "bold" -> Span(e.m.g1, "bold", None, None)
      [] e.type = "italic" -> Span(e.m.g1, "italic", None, None)

\* "Process the match": the spans of an iteration that found the match e, whose
\* typed span is sp; a span that raises ends _parse_inline
InlineMatched(remaining, e, sp) ==
    LET before == IF e.pos > 1 THEN <<PlainSpan(SubSeq(remaining, 1, e.pos - 1)).obj>> ELSE <<>>
    IN [type |-> e.type, pos |-> e.pos, end |-> e.m.end, break |-> FALSE,
        new |-> IF sp.raised = "none" THEN before \o <<sp.obj>> ELSE before,
        raised |-> sp.raised, rest |-> From(remaining, e.m.end)]

\* the rest of an iteration whose earliest match is e
InlineAfterSearch(remaining, e) ==
    IF e.type = "none"
    THEN [type |-> "none", pos |-> e.pos, end |-> e.pos, break |-> TRUE,
          new |-> <<PlainSpan(remaining).obj>>, raised |-> "none", rest |-> <<>>]
    ELSE InlineMatched(remaining, e, MatchSpan(e))

\* one iteration of "while remaining": the spans it appends, what is left, and
\* whether it leaves the loop (break) or raises
InlineIteration(remaining) == InlineAfterSearch(remaining, EarliestMatch(remaining))

RECURSIVE InlineLoop(_, _)
InlineContinue(it, spans) ==
    IF it.raised # "none" \/ it.break
    THEN [spans |-> spans \o it.new, raised |-> it.raised]
    ELSE InlineLoop(it.rest, spans \o it.new)

InlineLoop(remaining, spans) ==
    IF remaining = <<>> THEN [spans |-> spans, raised |-> "none"]
    ELSE InlineContinue(InlineIteration(remaining), spans)

_parse_inline(text) ==
    IF text = <<>> THEN [spans |-> <<>>, raised |-> "none"] ELSE InlineLoop(text, <<>>)


-----------------------------------------------------------------------------
(* parser.py: the block patterns, matched against one line.  A line holds *)
(* no newline (split_lines), so "." matches every character of it.         *)

AllIn(s, p, S) == \A k \in p..Len(s) : s[k] \in S

\* the text group of "\s+(.+)$" after a whitespace run of w characters at p: the
\* rest behind the run, or the run's last character when nothing follows it
TextAfterRun(line, p, w) ==
    IF w >= 1 /\ p + w <= Len(line) THEN Some(From(line, p + w))
    ELSE IF w >= 2 THEN Some(<<line[p + w - 1]>>)
    ELSE None

TextAfterWs(line, p) == TextAfterRun(line, p, RunIn(line, p, Space))

\* #{1,7} in place of #{1,6}
HeadingUpToSeven(line, n, t) ==
    IF 1 <= n /\ n <= 7 /\ t.some
    THEN Match(1, Len(line) + 1, SubSeq(line, 1, n), t.val, None)
    ELSE NoMatch

HeadingWith(line, n, t) ==
    IF 1 <= n /\ n <= 6 /\ t.some
    THEN Match(1, Len(line) + 1, SubSeq(line, 1, n), t.val, None)
    ELSE NoMatch

HeadingAfter(line, n) == HeadingWith(line, n, TextAfterWs(line, n + 1))

\* HEADING_PATTERN = ^(#{1,6})\s+(.+)$
HEADING_PATTERN(line) == HeadingAfter(line, RunIn(line, 1, {"#"}))

\* HORIZONTAL_RULE = ^(?:[-*_]){3,}\s*$
HORIZONTAL_RULE(line) ==
    \E n \in 3..Len(line) :
        /\ \A k \in 1..n : line[k] \in {"-", "*", "_"}
        /\ AllIn(line, n + 1, Space)

Fence == <<Backtick, Backtick, Backtick>>

FenceWith(line, w) ==
    IF HasAt(line, 1, Fence) /\ AllIn(line, 4 + w, Space)
    THEN Match(1, Len(line) + 1, SubSeq(line, 4, 3 + w), <<>>, None)
    ELSE NoMatch

\* FENCED_CODE_START = ^BT BT BT(\w*)\s*$
FENCED_CODE_START(line) == FenceWith(line, RunIn(line, 4, WordChar))

\* FENCED_CODE_END = ^BT BT BT\s*$
FENCED_CODE_END(line) == HasAt(line, 1, Fence) /\ AllIn(line, 4, Space)

UnorderedWith(line, lead, t) ==
    IF lead + 1 <= Len(line) /\ line[lead + 1] \in {"-", "*", "+"} /\ t.some
    THEN Match(1, Len(line) + 1, SubSeq(line, 1, lead), t.val, None)
    ELSE NoMatch

UnorderedAfter(line, lead) == UnorderedWith(line, lead, TextAfterWs(line, lead + 2))

\* UNORDERED_LIST_ITEM = ^(\s*)([-*+])\s+(.+)$   (g1 the indent, g2 the text)
UNORDERED_LIST_ITEM(line) == UnorderedAfter(line, RunIn(line, 1, Space))

OrderedWith(line, lead, d, t) ==
    IF d >= 1 /\ HasAt(line, lead + d + 1, <<".">>) /\ t.some
    THEN Match(1, Len(line) + 1, SubSeq(line, 1, lead), t.val,
               Some(SubSeq(line, lead + 1, lead + d)))
    ELSE NoMatch

OrderedDigits(line, lead, d) == OrderedWith(line, lead, d, TextAfterWs(line, lead + d + 2))

OrderedAfter(line, lead) == OrderedDigits(line, lead, RunIn(line, lead + 1, Digit))

\* ORDERED_LIST_ITEM = ^(\s*)(\d+)\.\s+(.+)$   (g1 the indent, g2 the text, g3 the number)
ORDERED_LIST_ITEM(line) == OrderedAfter(line, RunIn(line, 1, Space))

\* a pattern that leaves the space after the marker in the quoted text
BlockquoteKeepingSpace(line) ==
    IF ~HasAt(line, 1, <<">">>) THEN NoMatch
    ELSE Match(1, Len(line) + 1, From(line, 2), <<>>, None)

\* BLOCKQUOTE = ^>\s?(.*)$
BLOCKQUOTE(line) ==
    IF ~HasAt(line, 1, <<">">>) THEN NoMatch
    ELSE IF Len(line) >= 2 /\ line[2] \in Space
    THEN Match(1, Len(line) + 1, From(line, 3), <<>>, None)
    ELSE Match(1, Len(line) + 1, From(line, 2), <<>>, None)

\* TABLE_ROW = ^\|(.+)\|$
TABLE_ROW(line) == Len(line) >= 3 /\ line[1] = "|" /\ line[Len(line)] = "|"

\* TABLE_SEPARATOR = ^\|[\s\-:|]+\|$
TABLE_SEPARATOR(line) ==
    /\ Len(line) >= 3 /\ line[1] = "|" /\ line[Len(line)] = "|"
    /\ \A k \in 2..(Len(line) - 1) : line[k] \in Space \cup {"-", ":", "|"}

NoImage == [ok |-> FALSE, alt |-> <<>>, url |-> <<>>, title |-> None, attrs |-> None]

\* (?:\{([^}]+)\})?\s*$ after the link part tail, with n characters other than
\* the closing brace from a + 1 on
ImageBlockWith(s, alen, tail, a, n) ==
    IF HasAt(s, a, <<"{">>) /\ n >= 1 /\ a + 1 + n <= Len(s) /\ AllIn(s, a + n + 2, Space)
    THEN [ok |-> TRUE, alt |-> SubSeq(s, 3, 2 + alen), url |-> tail.url,
          title |-> tail.title, attrs |-> Some(SubSeq(s, a + 1, a + n))]
    ELSE IF AllIn(s, a, Space)
    THEN [ok |-> TRUE, alt |-> SubSeq(s, 3, 2 + alen), url |-> tail.url,
          title |-> tail.title, attrs |-> None]
    ELSE NoImage

ImageBlockTail(s, alen, tail) ==
    IF ~HasAt(s, 1, <<"!", "[">>) \/ ~tail.ok THEN NoImage
    ELSE ImageBlockWith(s, alen, tail, tail.end, RunNotIn(s, tail.end + 1, {"}"}))

ImageBlockAlt(s, alen) == ImageBlockTail(s, alen, LinkTailAt(s, 3 + alen))

\* IMAGE_BLOCK = ^!\[([^\]]*)\]\(([^)\s]+)(?:\s+["']([^"']+)["'])?\)(?:\{([^}]+)\})?\s*$
\* [ok, alt, url, title, attrs]
IMAGE_BLOCK(s) == ImageBlockAlt(s, RunNotIn(s, 3, {"]"}))

NoAttr == [ok |-> FALSE, key |-> <<>>, value |-> [int |-> 0, frac |-> <<>>], end |-> 0]

\* the value \d+(?:\.\d+)? of d digits at v, with f digits behind a point
AttrWith(s, p, k, e, v, d, f) ==
    IF k >= 1 /\ HasAt(s, e, <<"=">>) /\ d >= 1
    THEN IF HasAt(s, v + d, <<".">>) /\ f >= 1
         THEN [ok |-> TRUE, key |-> SubSeq(s, p, p + k - 1),
               value |-> [int |-> ToInt(SubSeq(s, v, v + d - 1)),
                          frac |-> SubSeq(s, v + d + 1, v + d + f)],
               end |-> v + d + 1 + f]
         ELSE [ok |-> TRUE, key |-> SubSeq(s, p, p + k - 1),
               value |-> [int |-> ToInt(SubSeq(s, v, v + d - 1)), frac |-> <<>>],
               end |-> v + d]
    ELSE NoAttr

AttrDigits(s, p, k, e, v, d) == AttrWith(s, p, k, e, v, d, RunIn(s, v + d + 1, Digit))
AttrValueAt(s, p, k, e, v) == AttrDigits(s, p, k, e, v, RunIn(s, v, Digit))
AttrEquals(s, p, k, e) == AttrValueAt(s, p, k, e, e + 1 + RunIn(s, e + 1, Space))
AttrKey(s, p, k) == AttrEquals(s, p, k, p + k + RunIn(s, p + k, Space))

\* IMAGE_ATTR = (\w+)\s*=\s*(\d+(?:\.\d+)?) at p: [ok, key, value, end]; the value
\* float(digits[.digits]) is kept as its integer part and its fraction digits
IMAGE_ATTR_At(s, p) == AttrKey(s, p, RunIn(s, p, WordChar))

\* the matches of IMAGE_ATTR at the positions of s
AttrMatches(s) == [q \in 1..Len(s) |-> IMAGE_ATTR_At(s, q)]

\* IMAGE_ATTR.finditer(s) from p on: the matches from left to right, none
\* overlapping; ms holds the match at every position
RECURSIVE AttrIter(_, _)
AttrIter(ms, p) ==
    IF \A q \in p..Len(ms) : ~ms[q].ok THEN <<>>
    ELSE <<ms[Min({q \in p..Len(ms) : ms[q].ok})]>>
            \o AttrIter(ms, ms[Min({q \in p..Len(ms) : ms[q].ok})].end)

IMAGE_ATTR_finditer(s) == AttrIter(AttrMatches(s), 1)


-----------------------------------------------------------------------------
(* parser.py: the block recognizers of _try_parse_block.  Each returns     *)
(* whether it returned a block (matched), the block, the lines consumed,   *)
(* and status: "ok", the exception raised, or "hung" when a nested parse   *)
(* never returns.                                                          *)

NoBlock == [matched |-> FALSE, kind |-> "none", block |-> HorizontalRule, consumed |-> 0,
            status |-> "ok"]
Yield(kind, block, consumed) ==
    [matched |-> TRUE, kind |-> kind, block |-> block, consumed |-> consumed, status |-> "ok"]
Abort(kind, status) ==
    [matched |-> TRUE, kind |-> kind, block |-> HorizontalRule, consumed |-> 0,
     status |-> status]

RECURSIVE parse(_)

\* "return <constructed block>, consumed", where the constructor may raise
Built(kind, r, consumed) ==
    IF r.raised # "none" THEN Abort(kind, r.raised) ELSE Yield(kind, r.obj, consumed)

HeadingOf(m, sp) ==
    IF sp.raised # "none" THEN Abort("heading", sp.raised)
    ELSE Built("heading", Heading(Len(m.g1), sp.spans), 1)

HeadingFor(m) == IF ~m.ok THEN NoBlock ELSE HeadingOf(m, _parse_inline(Strip(m.g2)))

\* "# Heading"
TryHeading(lines, start) == HeadingFor(HEADING_PATTERN(lines[start]))

\* "# Horizontal rule"
TryHorizontalRule(lines, start) ==
    IF HORIZONTAL_RULE(lines[start]) THEN Yield("horizontal_rule", HorizontalRule, 1)
    ELSE NoBlock

\* the first closing fence after start, or Len(lines) + 1
ClosingFence(lines, start) ==
    Min({k \in (start + 1)..(Len(lines) + 1) :
            k = Len(lines) + 1 \/ FENCED_CODE_END(lines[k])})

FencedUpTo(lines, start, m, close) ==
    Yield("fenced_code",
          CodeBlock(Join(SubSeq(lines, start + 1, close - 1), <<"\n">>),
                    IF m.g1 # <<>> THEN Some(m.g1) ELSE None),
          IF close > Len(lines) THEN close - start ELSE close + 1 - start)

FencedFor(lines, start, m) ==
    IF ~m.ok THEN NoBlock ELSE FencedUpTo(lines, start, m, ClosingFence(lines, start))

\* "# Fenced code block": up to the closing fence or the end of the input
TryFencedCode(lines, start) == FencedFor(lines, start, FENCED_CODE_START(lines[start]))

FourSpaces == <<" ", " ", " ", " ">>

\* one line of the indented-code loop: the code line it appends
IndentedLine(current) ==
    IF HasAt(current, 1, FourSpaces) THEN From(current, 5)
    ELSE IF HasAt(current, 1, <<"\t">>) THEN From(current, 2)
    ELSE <<>>

\* code_lines_indented without its trailing empty lines
RECURSIVE PopEmpty(_)
PopEmpty(ls) ==
    IF ls # <<>> /\ ls[Len(ls)] = <<>> THEN PopEmpty(SubSeq(ls, 1, Len(ls) - 1)) ELSE ls

\* the line at which the indented-code loop stops
IndentedEnd(lines, start) ==
    Min({k \in start..(Len(lines) + 1) :
            \/ k = Len(lines) + 1
            \/ ~(\/ HasAt(lines[k], 1, FourSpaces)
                 \/ HasAt(lines[k], 1, <<"\t">>)
                 \/ IsBlank(lines[k]))})

IndentedOf(code_lines, consumed) ==
    IF code_lines = <<>> THEN NoBlock
    ELSE Yield("indented_code", CodeBlock(Join(code_lines, <<"\n">>), None), consumed)

IndentedUpTo(lines, start, i) ==
    IndentedOf(PopEmpty([k \in 1..(i - start) |-> IndentedLine(lines[start + k - 1])]),
               i - start)

\* "# Indented code block (4 spaces or 1 tab)"
TryIndentedCode(lines, start) ==
    IF ~(HasAt(lines[start], 1, FourSpaces) \/ HasAt(lines[start], 1, <<"\t">>)) THEN NoBlock
    ELSE IndentedUpTo(lines, start, IndentedEnd(lines, start))

\* the blockquote loop from line i on: [quote_lines, i]
RECURSIVE QuoteLoop(_, _, _)
QuoteLine(lines, i, quote_lines, bq) ==
    IF bq.ok THEN QuoteLoop(lines, i + 1, Append(quote_lines, bq.g1))
    ELSE IF IsBlank(lines[i]) /\ i + 1 <= Len(lines) /\ HasAt(lines[i + 1], 1, <<">">>)
    THEN QuoteLoop(lines, i + 1, Append(quote_lines, <<>>))
    ELSE [quote_lines |-> quote_lines, i |-> i]

QuoteLoop(lines, i, quote_lines) ==
    IF i > Len(lines) THEN [quote_lines |-> quote_lines, i |-> i]
    ELSE QuoteLine(lines, i, quote_lines, BLOCKQUOTE(lines[i]))

QuoteOf(inner, consumed) ==
    IF inner.status # "ok" THEN Abort("blockquote", inner.status)
    ELSE Yield("blockquote", Blockquote(inner.blocks), consumed)

QuoteFor(q, start) == QuoteOf(parse(Join(q.quote_lines, <<"\n">>)), q.i - start)

\* "# Blockquote": the quoted text is parsed as a document of its own
TryBlockquote(lines, start) ==
    IF ~HasAt(lines[start], 1, <<">">>) THEN NoBlock
    ELSE QuoteFor(QuoteLoop(lines, start, <<>>), start)

\* str.strip(chars)
StripChars(s, S) ==
    SubSeq(s, 1 + RunIn(s, 1, S), Max({k \in 0..Len(s) : k = 0 \/ s[k] \notin S}))

AlignmentFor(cell) ==
    IF cell # <<>> /\ cell[1] = ":" /\ cell[Len(cell)] = ":" THEN Some("center")
    ELSE IF cell # <<>> /\ cell[Len(cell)] = ":" THEN Some("right")
    ELSE IF cell # <<>> /\ cell[1] = ":" THEN Some("left")
    ELSE None

\* a reading of the separator cell that looks at its end first
AlignmentEndFirst(cell_text) ==
    IF Strip(cell_text) # <<>> /\ Strip(cell_text)[Len(Strip(cell_text))] = ":" THEN Some("right")
    ELSE AlignmentFor(Strip(cell_text))

\* one cell of the separator row
AlignmentOf(cell_text) == AlignmentFor(Strip(cell_text))

\* line.strip().strip("|").split("|")
CellTexts(line) == SplitOn(StripChars(Strip(line), {"|"}), "|")

AlignmentsOf(cells) == [k \in 1..Len(cells) |-> AlignmentOf(cells[k])]

_parse_table_alignments(separator) == AlignmentsOf(CellTexts(separator))

\* the first exception among the results rs, which ends the loop that built them
FirstRaised(rs) ==
    IF \A k \in 1..Len(rs) : rs[k].raised = "none" THEN "none"
    ELSE rs[Min({k \in 1..Len(rs) : rs[k].raised # "none"})].raised

CellSpans(cell_texts) == [k \in 1..Len(cell_texts) |-> _parse_inline(Strip(cell_texts[k]))]

RowOf(sps, alignments, is_header) ==
    [cells |-> [k \in 1..Len(sps) |->
                   TableCell(sps[k].spans, is_header,
                             IF k <= Len(alignments) THEN alignments[k] ELSE None)],
     raised |-> FirstRaised(sps)]

\* _parse_table_row: [cells, raised]
_parse_table_row(line, alignments, is_header) ==
    RowOf(CellSpans(CellTexts(line)), alignments, is_header)

NoTable == [table |-> None, consumed |-> 0, raised |-> "none"]

\* the line at which the body loop of _parse_table stops
TableEnd(lines, start) ==
    Min({k \in (start + 2)..(Len(lines) + 1) : k = Len(lines) + 1 \/ ~TABLE_ROW(lines[k])})

TableOf(header, rows, alignments, consumed) ==
    IF header.raised # "none" THEN [NoTable EXCEPT !.raised = header.raised]
    ELSE IF FirstRaised(rows) # "none" THEN [NoTable EXCEPT !.raised = FirstRaised(rows)]
    ELSE [table |-> Some(Table(TableRow(header.cells),
                               [k \in 1..Len(rows) |-> TableRow(rows[k].cells)],
                               alignments)),
          consumed |-> consumed, raised |-> "none"]

\* _parse_table_row as the header and the body loop of _parse_table call it
TableRows(lines, first, last, alignments, is_header) ==
    [k \in 1..(last - first + 1) |-> _parse_table_row(lines[first + k - 1], alignments, is_header)]

TableUpTo(lines, start, i, alignments) ==
    TableOf(TableRows(lines, start, start, alignments, TRUE)[1],
            TableRows(lines, start + 2, i - 1, alignments, FALSE),
            alignments, i - start)

\* _parse_table: [table (Optional), consumed, raised]
_parse_table(lines, start) ==
    IF start + 1 > Len(lines) THEN NoTable
    ELSE IF ~TABLE_ROW(lines[start]) THEN NoTable
    ELSE IF ~TABLE_SEPARATOR(lines[start + 1]) THEN NoTable
    ELSE TableUpTo(lines, start, TableEnd(lines, start),
                   _parse_table_alignments(lines[start + 1]))

TableFor(t) ==
    IF t.raised # "none" THEN Abort("table", t.raised)
    ELSE IF t.table.some THEN Yield("table", t.table.val, t.consumed)
    ELSE NoBlock

\* "# Table"
TryTable(lines, start) ==
    IF ~TABLE_ROW(lines[start]) THEN NoBlock ELSE TableFor(_parse_table(lines, start))

\* the text of a list item as _parse_inline is called on it by both list loops
ItemSpans(text) == _parse_inline(text)

\* the loop of _parse_unordered_list from line i on: [items, i, raised]
RECURSIVE UnorderedLoop(_, _, _, _)
UnorderedAppend(lines, i, base, items, sp) ==
    IF sp.raised # "none" THEN [items |-> items, i |-> i, raised |-> sp.raised]
    ELSE UnorderedLoop(lines, i + 1, Some(base), Append(items, ListItem(sp.spans)))

UnorderedItem(lines, i, base, items, m) ==
    IF Len(m.g1) < base THEN [items |-> items, i |-> i, raised |-> "none"]
    ELSE IF Len(m.g1) = base THEN UnorderedAppend(lines, i, base, items, ItemSpans(m.g2))
    ELSE UnorderedLoop(lines, i + 1, Some(base), items)

UnorderedLine(lines, i, base_indent, items, m) ==
    IF IsBlank(lines[i]) THEN UnorderedLoop(lines, i + 1, base_indent, items)
    ELSE IF m.ok
    THEN UnorderedItem(lines, i, IF base_indent.some THEN base_indent.val ELSE Len(m.g1),
                       items, m)
    ELSE IF lines[i][1] # " " /\ lines[i][1] # "\t"
    THEN [items |-> items, i |-> i, raised |-> "none"]
    ELSE UnorderedLoop(lines, i + 1, base_indent, items)

UnorderedLoop(lines, i, base_indent, items) ==
    IF i > Len(lines) THEN [items |-> items, i |-> i, raised |-> "none"]
    ELSE UnorderedLine(lines, i, base_indent, items, UNORDERED_LIST_ITEM(lines[i]))

UnorderedOf(r, start) ==
    IF r.raised # "none" THEN Abort("unordered_list", r.raised)
    ELSE Yield("unordered_list", UnorderedList(r.items), r.i - start)

_parse_unordered_list(lines, start) == UnorderedOf(UnorderedLoop(lines, start, None, <<>>), start)

\* the loop of _parse_ordered_list from line i on: [items, i, start_num, raised]
RECURSIVE OrderedLoop(_, _, _, _, _)
OrderedAppend(lines, i, base, num, items, sp) ==
    IF sp.raised # "none"
    THEN [items |-> items, i |-> i, start_num |-> num, raised |-> sp.raised]
    ELSE OrderedLoop(lines, i + 1, Some(base), num, Append(items, ListItem(sp.spans)))

OrderedItem(lines, i, base, num, items, m) ==
    IF Len(m.g1) < base
    THEN [items |-> items, i |-> i, start_num |-> num, raised |-> "none"]
    ELSE IF Len(m.g1) = base THEN OrderedAppend(lines, i, base, num, items, ItemSpans(m.g2))
    ELSE OrderedLoop(lines, i + 1, Some(base), num, items)

\* a loop body that takes the number of every item line
OrderedLineLastNumber(lines, i, base_indent, start_num, items, m) ==
    IF IsBlank(lines[i]) THEN OrderedLoop(lines, i + 1, base_indent, start_num, items)
    ELSE IF m.ok
    THEN OrderedItem(lines, i,
                     IF base_indent.some THEN base_indent.val ELSE Len(m.g1),
                     ToInt(m.g3.val),
                     items, m)
    ELSE IF lines[i][1] # " " /\ lines[i][1] # "\t"
    THEN [items |-> items, i |-> i, start_num |-> start_num, raised |-> "none"]
    ELSE OrderedLoop(lines, i + 1, base_indent, start_num, items)

OrderedLine(lines, i, base_indent, start_num, items, m) ==
    IF IsBlank(lines[i]) THEN OrderedLoop(lines, i + 1, base_indent, start_num, items)
    ELSE IF m.ok
    THEN OrderedItem(lines, i,
                     IF base_indent.some THEN base_indent.val ELSE Len(m.g1),
                     IF base_indent.some THEN start_num ELSE ToInt(m.g3.val),
                     items, m)
    ELSE IF lines[i][1] # " " /\ lines[i][1] # "\t"
    THEN [items |-> items, i |-> i, start_num |-> start_num, raised |-> "none"]
    ELSE OrderedLoop(lines, i + 1, base_indent, start_num, items)

OrderedLoop(lines, i, base_indent, start_num, items) ==
    IF i > Len(lines)
    THEN [items |-> items, i |-> i, start_num |-> start_num, raised |-> "none"]
    ELSE OrderedLine(lines, i, base_indent, start_num, items, ORDERED_LIST_ITEM(lines[i]))

OrderedOf(r, start) ==
    IF r.raised # "none" THEN Abort("ordered_list", r.raised)
    ELSE Yield("ordered_list", OrderedList(r.items, r.start_num), r.i - start)

_parse_ordered_list(lines, start) == OrderedOf(OrderedLoop(lines, start, None, 1, <<>>), start)

\* "# Unordered list" and "# Ordered list"
TryUnorderedList(lines, start) ==
    IF UNORDERED_LIST_ITEM(lines[start]).ok THEN _parse_unordered_list(lines, start)
    ELSE NoBlock

TryOrderedList(lines, start) ==
    IF ORDERED_LIST_ITEM(lines[start]).ok THEN _parse_ordered_list(lines, start)
    ELSE NoBlock

\* the value the attribute loop leaves in width (or height): that of the last
\* match whose lower-cased key is the name
RECURSIVE AttrValue(_, _, _)
AttrValue(attrs, name, value) ==
    IF attrs = <<>> THEN value
    ELSE AttrValue(Tail(attrs), name,
                   IF Lower(Head(attrs).key) = name THEN Some(Head(attrs).value) ELSE value)

ImageWithAttrs(m, attrs) ==
    Built("image",
          ImageBlock([url |-> m.url, alt |-> m.alt, title |-> m.title,
                      width |-> AttrValue(attrs, <<"w", "i", "d", "t", "h">>, None),
                      height |-> AttrValue(attrs, <<"h", "e", "i", "g", "h", "t">>, None)]),
          1)

ImageFor(m) ==
    IF ~m.ok THEN NoBlock
    ELSE ImageWithAttrs(m, IF m.attrs.some THEN IMAGE_ATTR_finditer(m.attrs.val) ELSE <<>>)

\* "# Image block (standalone)"
TryImageBlock(lines, start) == ImageFor(IMAGE_BLOCK(Strip(lines[start])))

\* the recognizers in the order _try_parse_block tries them
RecognizerOrder ==
    <<"heading", "horizontal_rule", "fenced_code", "indented_code", "blockquote",
      "table", "unordered_list", "ordered_list", "image">>

Recognize(kind, lines, start) ==
    CASE kind = "heading" -> TryHeading(lines, start)
      [] kind = "horizontal_rule" -> TryHorizontalRule(lines, start)
      [] kind = "fenced_code" -> TryFencedCode(lines, start)
      [] kind = "indented_code" -> TryIndentedCode(lines, start)
      [] kind = "blockquote" -> TryBlockquote(lines, start)
      [] kind = "table" -> TryTable(lines, start)
      [] kind = "unordered_list" -> TryUnorderedList(lines, start)
      [] kind = "ordered_list" -> TryOrderedList(lines, start)
      [] kind = "image" -> TryImageBlock(lines, start)

\* the chain of "if match: return ..." from the k-th recognizer on
RECURSIVE TryFrom(_, _, _)
TryNext(k, lines, start, r) == IF r.matched THEN r ELSE TryFrom(k + 1, lines, start)

TryFrom(k, lines, start) ==
    IF k > Len(RecognizerOrder) THEN NoBlock
    ELSE TryNext(k, lines, start, Recognize(RecognizerOrder[k], lines, start))

_try_parse_block(lines, start) == TryFrom(1, lines, start)

\* the patterns at which _collect_paragraph_lines stops
StartsBlock(line, first) ==
    \/ HEADING_PATTERN(line).ok
    \/ HORIZONTAL_RULE(line)
    \/ FENCED_CODE_START(line).ok
    \/ BLOCKQUOTE(line).ok
    \/ UNORDERED_LIST_ITEM(line).ok
    \/ ORDERED_LIST_ITEM(line).ok
    \/ TABLE_ROW(line)
    \/ (HasAt(line, 1, FourSpaces) /\ first)

\* the line at which the loop of _collect_paragraph_lines stops
ParagraphEnd(lines, start) ==
    Min({k \in start..(Len(lines) + 1) :
            \/ k = Len(lines) + 1
            \/ IsBlank(lines[k])
            \/ StartsBlock(lines[k], k = start)})

ParagraphUpTo(lines, start, i) ==
    [para_lines |-> [k \in 1..(i - start) |-> normalize_whitespace(lines[start + k - 1])],
     consumed |-> i - start]

\* _collect_paragraph_lines: [para_lines, consumed]
_collect_paragraph_lines(lines, start) == ParagraphUpTo(lines, start, ParagraphEnd(lines, start))

ParagraphOf(sp, consumed) ==
    [branch |-> "paragraph", kind |-> "paragraph",
     new |-> IF sp.raised = "none" THEN <<Paragraph(sp.spans)>> ELSE <<>>,
     consumed |-> consumed, status |-> IF sp.raised = "none" THEN "ok" ELSE sp.raised]

\* "Default to paragraph"
ParagraphFor(c) ==
    IF c.para_lines = <<>>
    THEN [branch |-> "paragraph", kind |-> "none", new |-> <<>>, consumed |-> c.consumed,
          status |-> "ok"]
    ELSE ParagraphOf(_parse_inline(Join(c.para_lines, <<" ">>)), c.consumed)

IterationFor(lines, i, r) ==
    IF r.status # "ok"
    THEN [branch |-> "block", kind |-> r.kind, new |-> <<>>, consumed |-> 0,
          status |-> r.status]
    ELSE IF r.matched
    THEN [branch |-> "block", kind |-> r.kind, new |-> <<r.block>>,
          consumed |-> r.consumed, status |-> "ok"]
    ELSE ParagraphFor(_collect_paragraph_lines(lines, i))

\* one iteration of the loop of _parse_blocks at a non-blank line: the branch
\* taken, the blocks appended, the lines consumed, and status
BlockIteration(lines, i) == IterationFor(lines, i, _try_parse_block(lines, i))

\* the loop of _parse_blocks from line i on.  An iteration that consumes no line
\* leaves i as it was, so the loop repeats it for ever: "hung"
RECURSIVE BlocksLoop(_, _, _)
BlocksContinue(lines, i, blocks, it) ==
    IF it.status # "ok" THEN [blocks |-> blocks, status |-> it.status]
    ELSE IF it.consumed = 0 THEN [blocks |-> blocks \o it.new, status |-> "hung"]
    ELSE BlocksLoop(lines, i + it.consumed, blocks \o it.new)

BlocksLoop(lines, i, blocks) ==
    IF i > Len(lines) THEN [blocks |-> blocks, status |-> "ok"]
    ELSE IF IsBlank(lines[i]) THEN BlocksLoop(lines, i + 1, blocks)
    ELSE BlocksContinue(lines, i, blocks, BlockIteration(lines, i))

_parse_blocks(lines) == BlocksLoop(lines, 1, <<>>)

\* MarkdownParser.parse
parse(text) ==
    IF text = <<>> \/ IsBlank(text) THEN [blocks |-> <<>>, status |-> "ok"]
    ELSE _parse_blocks(split_lines(text))


-----------------------------------------------------------------------------
(* measure.py: heuristic widths and wrapping.  A width is an integer number  *)
(* of tenths of font_size * base_ratio (of tenths of font_size when is_mono) *)
(* and max_width is given in the same unit, so the sums and comparisons of   *)
(* the code are exact here.                                                   *)

NarrowChars == {"i", "I", "l", "j", "1", "|", "!", ".", ",", ";", ":", "'", Backtick}
WideChars == {"m", "w", "M", "W", "@"}
MediumWideChars ==
    {"A", "B", "C", "D", "E", "F", "G", "H", "J", "K", "N", "O", "P", "Q", "R", "S",
     "T", "U", "V", "X", "Y", "Z", "0", "2", "3", "4", "5", "6", "7", "8", "9"}

estimate_char_width(char, is_mono) ==
    IF is_mono THEN 6
    ELSE IF char \in NarrowChars THEN 5
    ELSE IF char \in WideChars THEN 15
    ELSE IF char \in MediumWideChars THEN 12
    ELSE IF char = " " THEN 8
    ELSE 10

RECURSIVE estimate_text_width(_, _)
estimate_text_width(text, is_mono) ==
    IF text = <<>> THEN 0
    ELSE estimate_char_width(Head(text), is_mono) + estimate_text_width(Tail(text), is_mono)

\* _break_long_word: the loop over the characters of word, from the k-th on
RECURSIVE BreakLoop(_, _, _, _, _, _, _)
BreakChar(word, k, chunks, current_chunk, current_width, max_width, is_mono, char_width) ==
    IF current_width + char_width > max_width /\ current_chunk # <<>>
    THEN BreakLoop(word, k + 1, Append(chunks, current_chunk), <<word[k]>>, char_width,
                   max_width, is_mono)
    ELSE BreakLoop(word, k + 1, chunks, Append(current_chunk, word[k]),
                   current_width + char_width, max_width, is_mono)

BreakLoop(word, k, chunks, current_chunk, current_width, max_width, is_mono) ==
    IF k > Len(word)
    THEN IF current_chunk # <<>> THEN Append(chunks, current_chunk) ELSE chunks
    ELSE BreakChar(word, k, chunks, current_chunk, current_width, max_width, is_mono,
                   estimate_char_width(word[k], is_mono))

BreakResult(word, chunks) == IF chunks # <<>> THEN chunks ELSE <<word>>

_break_long_word(word, max_width, is_mono) ==
    BreakResult(word, BreakLoop(word, 1, <<>>, <<>>, 0, max_width, is_mono))

\* wrap_text: the state of its loop is lines, current_line (a list of words)
\* and current_width
WrapStart == [lines |-> <<>>, current |-> <<>>, width |-> 0, branch |-> "none"]

\* the word is wider than max_width and current_line is empty
WrapBroken(st, broken, is_mono) ==
    [lines |-> st.lines \o SubSeq(broken, 1, Len(broken) - 1),
     current |-> <<broken[Len(broken)]>>,
     width |-> estimate_text_width(broken[Len(broken)], is_mono),
     branch |-> "break"]

\* the word fits on the current line, or starts a new line
WrapPlace(st, word, word_width, new_width, max_width) ==
    IF new_width <= max_width
    THEN [lines |-> st.lines, current |-> Append(st.current, word), width |-> new_width,
          branch |-> "fit"]
    ELSE [lines |-> IF st.current # <<>>
                    THEN Append(st.lines, Join(st.current, <<" ">>))
                    ELSE st.lines,
          current |-> <<word>>, width |-> word_width, branch |-> "newline"]

WrapWordWith(st, word, word_width, space_width, max_width, is_mono) ==
    IF word_width > max_width /\ st.current = <<>>
    THEN WrapBroken(st, _break_long_word(word, max_width, is_mono), is_mono)
    ELSE WrapPlace(st, word, word_width,
                   st.width + (IF st.current # <<>> THEN space_width ELSE 0) + word_width,
                   max_width)

\* one iteration of "for word in words"
WrapWord(st, word, max_width, is_mono) ==
    WrapWordWith(st, word, estimate_text_width(word, is_mono),
                 estimate_char_width(" ", is_mono), max_width, is_mono)

RECURSIVE WrapLoop(_, _, _, _, _)
WrapLoop(words, k, st, max_width, is_mono) ==
    IF k > Len(words) THEN st
    ELSE WrapLoop(words, k + 1, WrapWord(st, words[k], max_width, is_mono), max_width, is_mono)

WrapLast(lines) == IF lines # <<>> THEN lines ELSE << <<>> >>

\* "Don't forget the last line" and the return
WrapFinish(lines, current) ==
    WrapLast(IF current # <<>> THEN Append(lines, Join(current, <<" ">>)) ELSE lines)

WrapFinishState(st) == WrapFinish(st.lines, st.current)

wrap_text(text, max_width, is_mono) ==
    IF text = <<>> THEN << <<>> >>
    ELSE WrapFinishState(WrapLoop(SplitOn(text, " "), 1, WrapStart, max_width, is_mono))

-----------------------------------------------------------------------------
(* fonts.py: measurement by glyph advances.  A measurer is whether its font  *)
(* loaded (available), the units per em, and the advance of every character  *)
(* its cmap holds.  A measured width is the sum of the advances: the number  *)
(* of units of font_size / units_per_em, in which max_width is given too.    *)

Measured(width) == [raised |-> "none", width |-> width]

\* the advance of one character; a character without a glyph counts
\* units_per_em * 0.25
Advance(m, char) ==
    IF char \in DOMAIN m.advance THEN m.advance[char] ELSE m.units_per_em \div 4

RECURSIVE TotalAdvance(_, _)
TotalAdvance(m, text) ==
    IF text = <<>> THEN 0 ELSE Advance(m, Head(text)) + TotalAdvance(m, Tail(text))

\* FontMeasurer.measure
FontMeasurer_measure(m, text) ==
    IF text = <<>> THEN Measured(0)
    ELSE IF ~m.available THEN [raised |-> "RuntimeError", width |-> 0]
    ELSE Measured(TotalAdvance(m, text))

\* create_precise_wrapper: which function it returns for the measurer it ends
\* up with
WrapperFor(measurer) ==
    IF ~measurer.some \/ ~measurer.val.available THEN "wrap_text" ELSE "wrap_precise"

\* wrap_precise: the entry, where the empty text returns [""]
PreciseEntryNoLine(text) ==
    IF text = <<>> THEN [lines |-> <<>>, pc |-> "done"]
    ELSE [lines |-> <<>>, pc |-> "precise"]

PreciseEntry(text) ==
    IF text = <<>> THEN [lines |-> << <<>> >>, pc |-> "done"]
    ELSE [lines |-> <<>>, pc |-> "precise"]

\* a placement that looks at the width of the word alone
PrecisePlaceByWord(st, word, word_width, test_width, max_width) ==
    IF word_width <= max_width \/ st.current = <<>>
    THEN [lines |-> st.lines, current |-> Append(st.current, word), width |-> test_width,
          branch |-> "fit", raised |-> "none"]
    ELSE [lines |-> Append(st.lines, Join(st.current, <<" ">>)),
          current |-> <<word>>, width |-> word_width, branch |-> "newline",
          raised |-> "none"]

\* wrap_precise: the word joins the current line or starts a new one
PrecisePlace(st, word, word_width, test_width, max_width) ==
    IF test_width <= max_width \/ st.current = <<>>
    THEN [lines |-> st.lines, current |-> Append(st.current, word), width |-> test_width,
          branch |-> "fit", raised |-> "none"]
    ELSE [lines |-> Append(st.lines, Join(st.current, <<" ">>)),
          current |-> <<word>>, width |-> word_width, branch |-> "newline",
          raised |-> "none"]

PreciseWordWith(st, word, w, space, max_width) ==
    IF w.raised # "none" \/ space.raised # "none"
    THEN [lines |-> st.lines, current |-> st.current, width |-> st.width,
          branch |-> "raise", raised |-> "RuntimeError"]
    ELSE PrecisePlace(st, word, w.width,
                      st.width + (IF st.current # <<>> THEN space.width ELSE 0) + w.width,
                      max_width)

\* one iteration of "for word in words" of wrap_precise
PreciseWord(st, word, max_width, m) ==
    PreciseWordWith(st, word, FontMeasurer_measure(m, word),
                    FontMeasurer_measure(m, <<" ">>), max_width)

RECURSIVE PreciseLoop(_, _, _, _, _)
PreciseNext(words, k, st, max_width, m) ==
    IF st.raised # "none" THEN st ELSE PreciseLoop(words, k + 1, st, max_width, m)

PreciseLoop(words, k, st, max_width, m) ==
    IF k > Len(words) THEN st
    ELSE PreciseNext(words, k, PreciseWord(st, words[k], max_width, m), max_width, m)

PreciseLast(lines) == IF lines # <<>> THEN lines ELSE << <<>> >>

\* the last line and the return of wrap_precise
PreciseFinish(lines, current) ==
    PreciseLast(IF current # <<>> THEN Append(lines, Join(current, <<" ">>)) ELSE lines)

PreciseStart == [lines |-> <<>>, current |-> <<>>, width |-> 0, branch |-> "none",
                 raised |-> "none"]

PreciseResult(st) ==
    IF st.raised # "none" THEN [raised |-> st.raised, lines |-> <<>>]
    ELSE [raised |-> "none", lines |-> PreciseFinish(st.lines, st.current)]

wrap_precise(text, max_width, m) ==
    IF PreciseEntry(text).pc = "done"
    THEN [raised |-> "none", lines |-> PreciseEntry(text).lines]
    ELSE PreciseResult(PreciseLoop(SplitOn(text, " "), 1, PreciseStart, max_width, m))

-----------------------------------------------------------------------------
(* style.py and renderer.py: the block layout.  A length is an integer       *)
(* number of millionths of a pixel; a ratio, scale or em value of the style  *)
(* is a number of hundredths.  The products of the code are exact in these   *)
(* units for a style whose lengths have at most two decimals, so the model   *)
(* computes the numbers the code computes up to floating-point rounding.     *)
(* Text is measured by the heuristic of measure.py, the path _measure_text   *)
(* takes when no font measurer is available.                                 *)

Px(n) == n * 1000000

\* x * (h / 100) and x * (t / 10)
Hundredths(x, h) == ((x \div 10) * h) \div 10
Tenths(x, t) == (x \div 10) * t

\* Style(): the defaults of the fields the layout reads
DefaultStyle ==
    [base_font_size |-> Px(14), line_height |-> 150,
     h_scale |-> <<200, 160, 135, 115, 100, 90>>,
     heading_margin_top |-> 150, heading_margin_bottom |-> 50,
     paragraph_spacing |-> Px(12), list_indent |-> Px(24), list_item_spacing |-> Px(4),
     code_block_padding |-> Px(12), code_block_overflow |-> "wrap",
     blockquote_padding |-> Px(16), table_cell_padding |-> Px(8), hr_height |-> Px(1),
     char_width_ratio |-> 48, bold_char_width_ratio |-> 58, italic_char_width_ratio |-> 52,
     mono_char_width_ratio |-> 60, text_width_scale |-> 110,
     image_width |-> None, image_height |-> None,
     image_fallback_aspect_ratio |-> [num |-> 16, den |-> 9],
     image_enforce_aspect_ratio |-> FALSE]

\* str.startswith, str.lstrip(chars), str.rstrip(chars)
StartsWith(text, prefix) ==
    Len(prefix) <= Len(text) /\ SubSeq(text, 1, Len(prefix)) = prefix

RECURSIVE lstrip(_, _)
lstrip(text, chars) ==
    IF text # <<>> /\ text[1] \in chars THEN lstrip(Tail(text), chars) ELSE text

RECURSIVE rstrip(_, _)
rstrip(text, chars) ==
    IF text # <<>> /\ text[Len(text)] \in chars
    THEN rstrip(SubSeq(text, 1, Len(text) - 1), chars) ELSE text

\* str.find(char) as a 1-based position, 0 when the character does not occur
Find(text, chars) ==
    IF \E k \in 1..Len(text) : text[k] \in chars
    THEN CHOOSE k \in 1..Len(text) : text[k] \in chars /\ \A j \in 1..(k - 1) : text[j] \notin chars
    ELSE 0

\* urllib.parse: the letters and the scheme characters among the characters
\* of the URLs used
AsciiLetters == {"a", "b", "c", "d", "h", "n", "o", "t", "x"}
SchemeChars == AsciiLetters \cup {"1", "+", "-", "."}

\* urlsplit: the scheme, empty when the text before the first colon is not one
SchemeOf(url) ==
    IF /\ Find(url, {":"}) > 1
       /\ url[1] \in AsciiLetters
       /\ \A k \in 1..(Find(url, {":"}) - 1) : url[k] \in SchemeChars
    THEN SubSeq(url, 1, Find(url, {":"}) - 1)
    ELSE <<>>

AfterScheme(url) ==
    IF SchemeOf(url) = <<>> THEN url ELSE SubSeq(url, Len(SchemeOf(url)) + 2, Len(url))

\* urlsplit: the network location that follows "//"
NetlocOf(rest) ==
    IF ~StartsWith(rest, <<"/", "/">>) THEN <<>>
    ELSE IF Find(SubSeq(rest, 3, Len(rest)), {"/", "?", "#"}) = 0 THEN SubSeq(rest, 3, Len(rest))
    ELSE SubSeq(rest, 3, 1 + Find(SubSeq(rest, 3, Len(rest)), {"/", "?", "#"}))

\* urlparse(url): ValueError on a bracket without its partner in the
\* network location, otherwise the scheme
urlparse(url) ==
    IF (Find(NetlocOf(AfterScheme(url)), {"["}) > 0) # (Find(NetlocOf(AfterScheme(url)), {"]"}) > 0)
    THEN [raised |-> "ValueError", scheme |-> <<>>]
    ELSE [raised |-> "none", scheme |-> SchemeOf(url)]

\* create_prefix_mapper: the mapper looks for the first source in the order
\* of prefix_map that the url starts with
RECURSIVE PrefixLoop(_, _, _)
PrefixLoop(prefix_map, url, k) ==
    IF k > Len(prefix_map) THEN url
    ELSE IF StartsWith(url, prefix_map[k].source)
    THEN prefix_map[k].target \o SubSeq(url, Len(prefix_map[k].source) + 1, Len(url))
    ELSE PrefixLoop(prefix_map, url, k + 1)

PrefixMapper(prefix_map, url) ==
    [raised |-> "none", url |-> PrefixLoop(prefix_map, url, 1)]

\* create_base_url_mapper: the mapper
BaseUrlMapperWith(base_url, url, parsed) ==
    IF parsed.raised # "none" THEN [raised |-> parsed.raised, url |-> <<>>]
    ELSE IF parsed.scheme # <<>> \/ StartsWith(url, <<"/", "/">>) THEN [raised |-> "none", url |-> url]
    ELSE IF StartsWith(url, <<"d", "a", "t", "a", ":">>) THEN [raised |-> "none", url |-> url]
    ELSE [raised |-> "none",
          url |-> rstrip(base_url, {"/"}) \o <<"/">> \o lstrip(url, {"/"})]

BaseUrlMapper(base_url, url) == BaseUrlMapperWith(base_url, url, urlparse(url))

\* SVGRenderer._map_image_url
_map_image_url(image_url_mapper, url) ==
    IF ~image_url_mapper.some THEN [raised |-> "none", url |-> url]
    ELSE IF image_url_mapper.val.kind = "prefix"
    THEN PrefixMapper(image_url_mapper.val.prefix_map, url)
    ELSE BaseUrlMapper(image_url_mapper.val.base_url, url)

\* class Style: every field with its default
StyleDefault ==
    [font_family |-> "system-ui, -apple-system, BlinkMacSystemFont, 'Segoe UI', sans-serif",
     mono_font_family |-> "ui-monospace, 'SF Mono', Menlo, Consolas, monospace",
     base_font_size |-> Px(14), line_height |-> 150,
     text_color |-> "#1a1a1a", heading_color |-> None, link_color |-> "#2563eb",
     link_underline |-> TRUE, code_color |-> "#be185d", code_background |-> "#f3f4f6",
     blockquote_color |-> "#6b7280", blockquote_border_color |-> "#d1d5db",
     h1_scale |-> 200, h2_scale |-> 160, h3_scale |-> 135, h4_scale |-> 115,
     h5_scale |-> 100, h6_scale |-> 90,
     heading_font_weight |-> "bold", heading_margin_top |-> 150, heading_margin_bottom |-> 50,
     paragraph_spacing |-> Px(12), list_indent |-> Px(24), list_item_spacing |-> Px(4),
     code_block_padding |-> Px(12), code_block_border_radius |-> Px(4),
     code_block_overflow |-> "wrap",
     blockquote_padding |-> Px(16), blockquote_border_width |-> Px(3),
     table_border_color |-> "#e5e7eb", table_header_background |-> "#f9fafb",
     table_cell_padding |-> Px(8),
     hr_color |-> "#e5e7eb", hr_height |-> Px(1),
     image_width |-> None, image_height |-> None,
     image_fallback_aspect_ratio |-> [num |-> 16, den |-> 9],
     image_enforce_aspect_ratio |-> FALSE,
     char_width_ratio |-> 48, bold_char_width_ratio |-> 58, italic_char_width_ratio |-> 52,
     mono_char_width_ratio |-> 60, text_width_scale |-> 110]

\* Style(**kwargs)
StyleNew(kwargs) ==
    [field_name \in DOMAIN StyleDefault |->
        IF field_name \in DOMAIN kwargs THEN kwargs[field_name] ELSE StyleDefault[field_name]]

LIGHT_THEME == StyleNew(<<>>)

DARK_THEME ==
    StyleNew([text_color |-> "#e5e7eb", heading_color |-> Some("#f9fafb"),
              link_color |-> "#60a5fa", code_color |-> "#f472b6",
              code_background |-> "#374151", blockquote_color |-> "#9ca3af",
              blockquote_border_color |-> "#4b5563", table_border_color |-> "#4b5563",
              table_header_background |-> "#374151", hr_color |-> "#4b5563"])

GITHUB_THEME ==
    StyleNew([font_family |-> "-apple-system, BlinkMacSystemFont, 'Segoe UI', 'Noto Sans', Helvetica, Arial, sans-serif",
              mono_font_family |-> "ui-monospace, SFMono-Regular, 'SF Mono', Menlo, Consolas, 'Liberation Mono', monospace",
              base_font_size |-> Px(16), text_color |-> "#1f2328",
              heading_color |-> Some("#1f2328"), link_color |-> "#0969da",
              code_color |-> "#1f2328", code_background |-> "#f6f8fa",
              blockquote_color |-> "#59636e", blockquote_border_color |-> "#d1d9e0"])

DOCUMENT_PRESET ==
    StyleNew([heading_margin_top |-> 150, heading_margin_bottom |-> 50,
              paragraph_spacing |-> Px(12), list_item_spacing |-> Px(4)])

COMPACT_PRESET ==
    StyleNew([heading_margin_top |-> 30, heading_margin_bottom |-> 30,
              paragraph_spacing |-> Px(8), list_item_spacing |-> Px(3)])

MINIMAL_PRESET ==
    StyleNew([heading_margin_top |-> 10, heading_margin_bottom |-> 10,
              paragraph_spacing |-> Px(4), list_item_spacing |-> Px(2)])

\* merge_styles: the fields of style that differ from the default
Differing(style) ==
    {field_name \in DOMAIN style : style[field_name] # StyleDefault[field_name]}

\* the loop body with every field of the style copied
OverlayEveryField(result_kwargs, style) ==
    [field_name \in DOMAIN result_kwargs \cup DOMAIN style |-> style[field_name]]

\* merge_styles: the body of the loop over the styles
Overlay(result_kwargs, style) ==
    [field_name \in DOMAIN result_kwargs \cup Differing(style) |->
        IF field_name \in Differing(style) THEN style[field_name]
        ELSE result_kwargs[field_name]]

RECURSIVE KwargsAfter(_, _)
KwargsAfter(styles, n) ==
    IF n = 0 THEN <<>> ELSE Overlay(KwargsAfter(styles, n - 1), styles[n])

\* merge_styles(*styles)
merge_styles(styles) ==
    IF styles = <<>> THEN StyleNew(<<>>)
    ELSE StyleNew(KwargsAfter(styles, Len(styles)))

\* Style.get_heading_scale
get_heading_scale(style, level) ==
    IF level \in 1..6 THEN style.h_scale[level] ELSE 100

\* SVGRenderer._measure_text, heuristic path
_measure_text(text, font_size, is_bold, is_italic, is_mono, style) ==
    Hundredths(
        IF is_mono
        THEN Len(text) * Hundredths(font_size, style.mono_char_width_ratio)
        ELSE Tenths(Hundredths(font_size,
                               IF is_bold THEN style.bold_char_width_ratio
                               ELSE IF is_italic THEN style.italic_char_width_ratio
                               ELSE style.char_width_ratio),
                    estimate_text_width(text, FALSE)),
        style.text_width_scale)

\* x * (num / den)
Ratio(x, num, den) == (x \div den) * num

\* SVGRenderer.__init__: the body measurer is dropped when its font did not load
BodyKept(fm) == Some(fm)

BodySetup(fm) == IF ~fm.available THEN None ELSE Some(fm)

\* SVGRenderer.__init__: the mono measurer, the width of "M" at font size 1 it
\* is asked for, and the calls of FontMeasurer.measure made for it
MonoSetup(fm) ==
    IF fm.available
    THEN [mono_measurer |-> Some(fm),
          mono_char_width |-> Some([num |-> TotalAdvance(fm, <<"M">>), den |-> fm.units_per_em]),
          calls |-> {[available |-> fm.available, text |-> <<"M">>]}]
    ELSE [mono_measurer |-> None, mono_char_width |-> None, calls |-> {}]

NoMono == [mono_measurer |-> None, mono_char_width |-> None, calls |-> {}]

\* _measure_text: the branch taken on a renderer with the fields of self
MeasureBranch(self, is_mono) ==
    IF is_mono THEN (IF self.mono_char_width.some THEN "mono_font" ELSE "mono_ratio")
    ELSE IF self.measurer.some /\ self.measurer.val.available THEN "font"
    ELSE "heuristic"

\* the width of the branch "font" before text_width_scale: measurer.measure
\* and the scaling for bold and italic
FontWidth(measured, m, font_size, is_bold, is_italic, style) ==
    IF is_bold /\ is_italic
    THEN Ratio(Ratio((font_size \div m.units_per_em) * measured.width,
                     style.bold_char_width_ratio, style.char_width_ratio),
               style.italic_char_width_ratio, style.char_width_ratio)
    ELSE IF is_bold
    THEN Ratio((font_size \div m.units_per_em) * measured.width,
               style.bold_char_width_ratio, style.char_width_ratio)
    ELSE IF is_italic
    THEN Ratio((font_size \div m.units_per_em) * measured.width,
               style.italic_char_width_ratio, style.char_width_ratio)
    ELSE (font_size \div m.units_per_em) * measured.width

MeasuredByFont(measured, m, text, font_size, is_bold, is_italic, style) ==
    [raised |-> measured.raised,
     width |-> IF measured.raised # "none" THEN 0
               ELSE Hundredths(FontWidth(measured, m, font_size, is_bold, is_italic, style),
                               style.text_width_scale),
     calls |-> {[available |-> m.available, text |-> text]}]

\* SVGRenderer._measure_text on a renderer with the fields of self: the
\* exception raised, the width, and the calls of FontMeasurer.measure made
MeasureTextOn(self, text, font_size, is_bold, is_italic, is_mono, style) ==
    CASE MeasureBranch(self, is_mono) = "mono_font" ->
            [raised |-> "none",
             width |-> Hundredths(Len(text) * Ratio(font_size, self.mono_char_width.val.num,
                                                    self.mono_char_width.val.den),
                                  style.text_width_scale),
             calls |-> {}]
      [] MeasureBranch(self, is_mono) = "font" ->
            MeasuredByFont(FontMeasurer_measure(self.measurer.val, text), self.measurer.val,
                           text, font_size, is_bold, is_italic, style)
      [] OTHER ->
            [raised |-> "none",
             width |-> _measure_text(text, font_size, is_bold, is_italic, is_mono, style),
             calls |-> {}]

\* TextRun and _build_text_runs
TextRun(span) ==
    [text |-> span.text,
     is_bold |-> span.span_type \in {"bold", "bold_italic"},
     is_italic |-> span.span_type \in {"italic", "bold_italic"},
     is_code |-> span.span_type = "code",
     is_link |-> span.span_type = "link",
     is_image |-> span.span_type = "image",
     url |-> span.url]

_build_text_runs(spans) == [n \in 1..Len(spans) |-> TextRun(spans[n])]

same_style(a, b) ==
    /\ a.is_bold = b.is_bold
    /\ a.is_italic = b.is_italic
    /\ a.is_code = b.is_code
    /\ a.is_link = b.is_link
    /\ a.url = b.url

with_text(run, text) == [run EXCEPT !.text = text]

EndsWithSpace(text) == text # <<>> /\ text[Len(text)] = " "
LStripSpaces(word) == From(word, RunIn(word, 1, {" "}) + 1)

\* _wrap_runs: "Word fits on current line"
RunsFit(ws, last, run, word, word_width) ==
    [lines |-> [ws.lines EXCEPT ![Len(ws.lines)] =
                   IF last # <<>> /\ same_style(last[Len(last)], run)
                   THEN [last EXCEPT ![Len(last)] =
                            with_text(last[Len(last)], last[Len(last)].text \o word)]
                   ELSE Append(last, with_text(run, IF last = <<>>
                                                    THEN LStripSpaces(word)
                                                    ELSE word))],
     current_width |-> ws.current_width + word_width]

\* _wrap_runs: "Start new line"
RunsNewLine(ws, run, word_clean, font_size, style) ==
    [lines |-> Append(ws.lines, <<with_text(run, word_clean)>>),
     current_width |-> _measure_text(word_clean, font_size, run.is_bold, run.is_italic,
                                     run.is_code, style)]

\* every word put on the current line
RunsPlaceOnLine(ws, last, run, word, word_width, max_width, font_size, style) ==
    RunsFit(ws, last, run, word, word_width)

RunsPlace(ws, last, run, word, word_width, max_width, font_size, style) ==
    IF ws.current_width + word_width <= max_width \/ last = <<>>
    THEN RunsFit(ws, last, run, word, word_width)
    ELSE RunsNewLine(ws, run, LStripSpaces(word), font_size, style)

RunsSpaced(ws, last, run, word, max_width, font_size, style) ==
    RunsPlace(ws, last, run, word,
              _measure_text(word, font_size, run.is_bold, run.is_italic, run.is_code, style),
              max_width, font_size, style)

\* one iteration of the inner loop, for the i-th word (from 1) of the run
RunsWord(ws, last, run, i, word, max_width, font_size, style) ==
    RunsSpaced(ws, last, run,
               IF (i > 1 \/ (last # <<>> /\ ~EndsWithSpace(last[Len(last)].text)))
                  /\ last # <<>>
               THEN <<" ">> \o word
               ELSE word,
               max_width, font_size, style)

RECURSIVE RunsWords(_, _, _, _, _, _, _)
RunsWords(ws, run, words, i, max_width, font_size, style) ==
    IF i > Len(words) THEN ws
    ELSE RunsWords(RunsWord(ws, ws.lines[Len(ws.lines)], run, i, words[i],
                            max_width, font_size, style),
                   run, words, i + 1, max_width, font_size, style)

RECURSIVE RunsLoop(_, _, _, _, _, _)
RunsLoop(ws, runs, k, max_width, font_size, style) ==
    IF k > Len(runs) THEN ws
    ELSE RunsLoop(RunsWords(ws, runs[k], SplitOn(runs[k].text, " "), 1,
                            max_width, font_size, style),
                  runs, k + 1, max_width, font_size, style)

_wrap_runs(runs, max_width, font_size, style) ==
    IF runs = <<>> THEN <<>>
    ELSE RunsLoop([lines |-> << <<>> >>, current_width |-> 0], runs, 1,
                  max_width, font_size, style).lines

\* what a handler of _render_block gives: the height used, or the exception
Used(height) == [raised |-> "none", height |-> height]
Raised(exception) == [raised |-> exception, height |-> 0]

\* _render_text_block: the height used
_render_text_block(spans, width, font_size, style) ==
    IF spans = <<>> THEN 0
    ELSE Len(_wrap_runs(_build_text_runs(spans), width, font_size, style))
             * Hundredths(font_size, style.line_height)

_render_paragraph(para, width, style) ==
    Used(_render_text_block(para.spans, width, style.base_font_size, style))

HeadingHeight(spans, width, font_size, style) ==
    Hundredths(font_size, style.heading_margin_top)
        + _render_text_block(spans, width, font_size, style)
        + Hundredths(font_size, style.heading_margin_bottom)

_render_heading(heading, width, style) ==
    Used(HeadingHeight(heading.spans, width,
                       Hundredths(style.base_font_size,
                                  get_heading_scale(style, heading.level)),
                       style))

\* int(a / b) for b > 0: truncation towards zero
IntTrunc(a, b) == IF a >= 0 THEN a \div b ELSE 0 - ((0 - a) \div b)

\* the lines a code block gives once the lines longer than max_chars are cut
RECURSIVE WrappedLines(_, _, _)
WrappedLines(lines, k, max_chars) ==
    IF k > Len(lines) THEN 0
    ELSE (IF Len(lines[k]) <= max_chars THEN 1
          ELSE (Len(lines[k]) + max_chars - 1) \div max_chars)
         + WrappedLines(lines, k + 1, max_chars)

CodeHeight(line_count, font_size, padding) ==
    line_count * Hundredths(font_size, 140) + padding * 2

CodeWrapped(code, width, font_size, padding, char_width) ==
    Used(CodeHeight(WrappedLines(SplitOn(code.code, "\n"), 1,
                                 Max({10, IntTrunc(width - padding * 2, char_width)})),
                    font_size, padding))

CodeFont(code, width, font_size, style) ==
    CodeWrapped(code, width, font_size, style.code_block_padding,
                Hundredths(font_size, style.mono_char_width_ratio))

_render_code_block_wrapped(code, width, style) ==
    CodeFont(code, width, Hundredths(style.base_font_size, 90), style)

_render_code_block_simple(code, width, style) ==
    Used(CodeHeight(Len(SplitOn(code.code, "\n")), Hundredths(style.base_font_size, 90),
                    style.code_block_padding))

_render_code_block(code, width, style) ==
    IF style.code_block_overflow = "wrap" THEN _render_code_block_wrapped(code, width, style)
    ELSE IF style.code_block_overflow \in {"show", "hide", "ellipsis"}
         THEN _render_code_block_simple(code, width, style)
         ELSE _render_code_block_wrapped(code, width, style)

\* "while line:" of _render_code_block_wrapped: the line cut every max_chars
RECURSIVE CutLine(_, _)
CutLine(line, max_chars) ==
    IF line = <<>> THEN <<>>
    ELSE <<SubSeq(line, 1, Min({max_chars, Len(line)}))>> \o CutLine(From(line, max_chars + 1), max_chars)

\* a source line appended as it is, whatever its length
VisualUncut(line, max_chars) == <<line>>

\* the visual lines the wrap loop appends for one source line
VisualLines(line, max_chars) ==
    IF line = <<>> THEN <<<<>>>>
    ELSE IF Len(line) <= max_chars THEN <<line>>
    ELSE CutLine(line, max_chars)

\* max_chars of a call
CodeMaxChars(width, style) ==
    Max({10, IntTrunc(width - style.code_block_padding * 2,
                      Hundredths(Hundredths(style.base_font_size, 90),
                                 style.mono_char_width_ratio))})

\* the loop over the items of a list; _render_unordered_list and
\* _render_ordered_list run the same one
RECURSIVE ItemsLoop(_, _, _, _, _)
ItemsLoop(items, k, current_y, item_width, style) ==
    IF k > Len(items)
    THEN IF items # <<>> THEN current_y - style.list_item_spacing ELSE current_y
    ELSE ItemsLoop(items, k + 1,
                   current_y
                       + _render_text_block(items[k].spans, item_width,
                                            style.base_font_size, style)
                       + style.list_item_spacing,
                   item_width, style)

_render_unordered_list(ul, width, style) ==
    Used(ItemsLoop(ul.items, 1, 0, width - style.list_indent, style))

_render_ordered_list(ol, width, style) ==
    Used(ItemsLoop(ol.items, 1, 0, width - style.list_indent, style))

\* str(n) of an integer n >= 0
DigitChar(d) == CHOOSE c \in Digit : DigitVal(c) = d

RECURSIVE Decimal(_)
Decimal(n) == IF n < 10 THEN <<DigitChar(n)>> ELSE Decimal(n \div 10) \o <<DigitChar(n % 10)>>

\* _render_ordered_list: the number_text written for the item at index idx
number_text(ol, idx) == Decimal(ol.start + idx) \o <<".">>

_render_horizontal_rule(style) ==
    Used(style.paragraph_spacing + style.hr_height + style.paragraph_spacing)

_render_table(table, style) ==
    Used((1 + Len(table.rows))
             * (Hundredths(style.base_font_size, style.line_height)
                  + style.table_cell_padding * 2))

\* one cell of _render_table_row: the left edge x of its column, and where
\* its text is anchored
TableCellAt(row_no, idx, x, col_width, padding, align) ==
    [row |-> row_no, idx |-> idx, x |-> x,
     text_x |-> IF align = Some("center") THEN x + col_width \div 2
                ELSE IF align = Some("right") THEN x + col_width - padding
                ELSE x + padding,
     anchor |-> IF align = Some("center") THEN "middle"
                ELSE IF align = Some("right") THEN "end"
                ELSE "start"]

\* _render_table_row: the cells of the row, x advancing by col_width
_render_table_row(row, row_no, start_x, col_width, padding, alignments) ==
    [k \in 1..Len(row.cells) |->
        TableCellAt(row_no, k - 1, start_x + (k - 1) * col_width, col_width, padding,
                    IF k <= Len(alignments) THEN alignments[k] ELSE None)]

\* "Calculate column widths (equal distribution for now)"
TableColWidth(table, width) ==
    IF Len(table.header.cells) > 0 THEN width \div Len(table.header.cells) ELSE width

\* images.py ImageSize.aspect_ratio.  A ratio is the pair of integers whose
\* quotient it is
aspect_ratio(size) ==
    IF size.height = 0 THEN [num |-> 1, den |-> 1]
    ELSE [num |-> size.width, den |-> size.height]

Sized(img_width, img_height) ==
    [raised |-> "none", img_width |-> img_width, img_height |-> img_height]

\* img_width / ratio
Over(img_width, ratio) ==
    IF ratio.num = 0
    THEN [raised |-> "ZeroDivisionError", img_width |-> img_width, img_height |-> 0]
    ELSE Sized(img_width, (img_width \div ratio.num) * ratio.den)

\* "Calculate final width"
ImageWidth(img, width, style) ==
    IF img.width.some THEN Min({width, img.width.val})
    ELSE IF style.image_width.some THEN Min({width, style.image_width.val})
    ELSE width

\* a height that puts the fetched size before the style default
ImageHeightActualFirst(img, img_width, style, actual_size) ==
    IF img.height.some THEN Sized(img_width, img.height.val)
    ELSE IF actual_size.some THEN Over(img_width, aspect_ratio(actual_size.val))
    ELSE IF style.image_height.some THEN Sized(img_width, style.image_height.val)
    ELSE Over(img_width, style.image_fallback_aspect_ratio)

\* "Calculate final height"
ImageHeight(img, img_width, style, actual_size) ==
    IF img.height.some THEN Sized(img_width, img.height.val)
    ELSE IF img.width.some /\ actual_size.some
    THEN Over(img_width, aspect_ratio(actual_size.val))
    ELSE IF style.image_height.some THEN Sized(img_width, style.image_height.val)
    ELSE IF actual_size.some THEN Over(img_width, aspect_ratio(actual_size.val))
    ELSE Over(img_width, style.image_fallback_aspect_ratio)

\* _render_image_block after _get_image_size gave actual_size: it reads
\* img.width and img.height, which raises AttributeError on an object that has
\* no such attribute, as every ImageBlock
ImageSized(img, width, style, actual_size) ==
    IF {"width", "height"} \subseteq DOMAIN img
    THEN ImageHeight(img, ImageWidth(img, width, style), style, actual_size)
    ELSE [raised |-> "AttributeError", img_width |-> 0, img_height |-> 0]

ImageUsed(sized) == IF sized.raised # "none" THEN Raised(sized.raised) ELSE Used(sized.img_height)

_render_image_block(img, width, style, actual_size) ==
    ImageUsed(ImageSized(img, width, style, actual_size))

RECURSIVE _render_block(_, _, _)

\* _render_blockquote: the loop over the inner blocks, from the k-th on
RECURSIVE BlockquoteLoop(_, _, _, _, _)
BlockquoteNext(blocks, k, current_y, inner_width, style, r) ==
    IF r.raised # "none" THEN r
    ELSE BlockquoteLoop(blocks, k + 1, current_y + r.height + style.paragraph_spacing,
                        inner_width, style)

BlockquoteLoop(blocks, k, current_y, inner_width, style) ==
    IF k > Len(blocks)
    THEN Used(IF blocks # <<>> THEN current_y - style.paragraph_spacing ELSE current_y)
    ELSE BlockquoteNext(blocks, k, current_y, inner_width, style,
                        _render_block(blocks[k], inner_width, style))

_render_blockquote(bq, width, style) ==
    BlockquoteLoop(bq.blocks, 1, 0, width - style.blockquote_padding, style)

\* _render_block: the dispatch on the class of the block
_render_block(block, width, style) ==
    CASE block.block_type = "paragraph" -> _render_paragraph(block, width, style)
      [] block.block_type = "heading" -> _render_heading(block, width, style)
      [] block.block_type = "code_block" -> _render_code_block(block, width, style)
      [] block.block_type = "blockquote" -> _render_blockquote(block, width, style)
      [] block.block_type = "unordered_list" -> _render_unordered_list(block, width, style)
      [] block.block_type = "ordered_list" -> _render_ordered_list(block, width, style)
      [] block.block_type = "horizontal_rule" -> _render_horizontal_rule(style)
      [] block.block_type = "table" -> _render_table(block, style)
      [] block.block_type = "image" -> _render_image_block(block, width, style, None)
      [] OTHER -> Used(0)

\* RenderContext.with_offset
with_offset(ctx, dx, dy) == [ctx EXCEPT !.x = ctx.x + dx, !.y = ctx.y + dy]

\* render and measure: ctx, before the loop
TopContext(width, padding) ==
    [x |-> padding, y |-> padding, width |-> width - padding * 2, indent |-> 0]

\* the end of the loop with the spacing taken off whatever the document
TrailingAlwaysRemoved(blocks, current_y, style) == current_y - style.paragraph_spacing

\* render and measure: "if blocks: current_y -= self.style.paragraph_spacing"
TrailingRemoved(blocks, current_y, style) ==
    IF blocks # <<>> THEN current_y - style.paragraph_spacing ELSE current_y

\* SVGRenderer.render: the loop over the blocks, from the k-th on
RECURSIVE RenderLoop(_, _, _, _, _)
RenderNext(blocks, k, current_y, content_width, style, r) ==
    IF r.raised # "none" THEN r
    ELSE RenderLoop(blocks, k + 1, current_y + r.height + style.paragraph_spacing,
                    content_width, style)

RenderLoop(blocks, k, current_y, content_width, style) ==
    IF k > Len(blocks)
    THEN Used(IF blocks # <<>> THEN current_y - style.paragraph_spacing ELSE current_y)
    ELSE RenderNext(blocks, k, current_y, content_width, style,
                    _render_block(blocks[k], content_width, style))

\* utils.py format_number with precision 2: the numbers the string it returns
\* can denote.  An integer is written as it is; any other number is rounded to
\* two decimals, and a number halfway between two of them goes to the one its
\* binary representation is nearer to, which this arithmetic does not tell.
format_number(n) ==
    IF n % Px(1) = 0 THEN {n}
    ELSE IF (n % 10000) * 2 < 10000 THEN {n - (n % 10000)}
    ELSE IF (n % 10000) * 2 > 10000 THEN {n - (n % 10000) + 10000}
    ELSE {n - (n % 10000), n - (n % 10000) + 10000}

\* render up to total_height, the number _build_svg formats
RenderTotal(r, padding) ==
    IF r.raised # "none" THEN r ELSE Used(r.height + padding)

render(blocks, width, padding, style) ==
    RenderTotal(RenderLoop(blocks, 1, padding, width - padding * 2, style), padding)

\* SVGRenderer.measure: the loop over the blocks, from the k-th on
RECURSIVE MeasureLoop(_, _, _, _, _)
MeasureNext(blocks, k, current_y, content_width, style, r) ==
    IF r.raised # "none" THEN r
    ELSE MeasureLoop(blocks, k + 1, current_y + r.height + style.paragraph_spacing,
                     content_width, style)

MeasureLoop(blocks, k, current_y, content_width, style) ==
    IF k > Len(blocks)
    THEN Used(IF blocks # <<>> THEN current_y - style.paragraph_spacing ELSE current_y)
    ELSE MeasureNext(blocks, k, current_y, content_width, style,
                     _render_block(blocks[k], content_width, style))

\* Size(width=width, height=current_y + padding)
MeasureSize(r, width, padding) ==
    [raised |-> r.raised, width |-> width,
     height |-> IF r.raised # "none" THEN 0 ELSE r.height + padding]

measure(blocks, width, padding, style) ==
    MeasureSize(MeasureLoop(blocks, 1, padding, width - padding * 2, style), width, padding)

-----------------------------------------------------------------------------
(* The inputs the specifications draw from *)

MaxLines == 2       \* lines of a document
MaxListLines == 3   \* lines of a document of lists
MaxTableLines == 4  \* lines of a document of tables
MaxWsLen == 3       \* characters of a whitespace-only text
MaxInlineLen == 7   \* characters of an inline text over InlineAlphabet
MaxTokens == 3      \* tokens of an inline text made of InlineTokens

\* all sequences over S of length at most n
SeqsUpTo(S, n) == UNION {[1..k -> S] : k \in 0..n}

LinePool ==
    { <<>>,
      <<"a">>,
      <<"#", " ", "a">>,
      <<"#", "#", "#", "#", "#", "#", "#", " ", "a">>,
      <<"*", "*", "*">>,
      <<"-", " ", "-", " ", "-">>,
      <<Backtick, Backtick, Backtick>>,
      <<" ", " ", " ", " ", "-", " ", "a">>,
      <<"\t", "1", ".", " ", "a">>,
      <<" ", " ", " ", " ", "!", "[", "a", "]", "(", "u", ")">>,
      <<">", " ", "a">>,
      <<">", " ", "#", " ", "a">>,
      <<">", " ", "|", "a", "|">>,
      <<"|", "a", "|">>,
      <<"|", "-", "|">>,
      <<"-", " ", "a">>,
      <<" ", " ", "-", " ", "b">>,
      <<"5", ".", " ", "a">>,
      <<"!", "[", "a", "]", "(", "u", ")">>,
      <<"!", "[", "]", "(", "u", " ", "'", "t", "'", ")", "{", "W", "i", "d", "t", "h", "=", "3",
        " ", "h", "e", "i", "g", "h", "t", "=", "2", ".", "5", "}">>,
      <<"*", "*", "a", "*", "*", "[", "a", "]", "(", "u", ")">>,
      <<"a", "!", "[", "]", "(", "u", ")">> }

\* lines of ordered lists: item lines with several numbers, a nested item
\* line, a line that ends the list
ListLines ==
    { <<>>,
      <<"a">>,
      <<"5", ".", " ", "a">>,
      <<"2", ".", " ", "b">>,
      <<"0", "9", ".", " ", "a">>,
      <<" ", " ", "7", ".", " ", "c">>,
      <<" ", "1", ".", " ", "a">> }

ListTexts == {Join(ls, <<"\n">>) : ls \in SeqsUpTo(ListLines, MaxListLines)}

\* lines of tables: rows of one to three cells, separator rows with every
\* alignment, a line that is no row
TableLines ==
    { <<"a">>,
      <<"|", "a", "|", "b", "|">>,
      <<"|", "c", "|">>,
      <<"|", "*", "a", "*", "|", " ", "|", "|">>,
      <<"|", ":", "-", "|", "-", ":", "|">>,
      <<"|", ":", "-", ":", "|", " ", "-", " ", "|", ":", "|">> }

TableTexts == {Join(ls, <<"\n">>) : ls \in SeqsUpTo(TableLines, MaxTableLines)}

\* lines of rule characters: unspaced, mixed, followed by a space, spaced,
\* too short
RuleLines ==
    { <<>>,
      <<"a">>,
      <<"-", "-", "-">>,
      <<"*", "*", "*", "*">>,
      <<"_", "_", "_">>,
      <<"-", "*", "_">>,
      <<"-", "-", "-", " ">>,
      <<"-", " ", "-", " ", "-">>,
      <<"*", " ", "*", " ", "*">>,
      <<"_", " ", "_", " ", "_">>,
      <<"-", "-">> }

RuleTexts == {Join(ls, <<"\n">>) : ls \in SeqsUpTo(RuleLines, MaxLines)}

\* the text with "> " put before each of its lines
Quoted(text) ==
    Join([k \in 1..Len(split_lines(text)) |-> <<">", " ">> \o split_lines(text)[k]], <<"\n">>)

\* lines of the texts to quote: blank, indented, of several kinds of block,
\* quoted already, and the lines on which parse raises or does not return
QuotableLines ==
    { <<>>,
      <<"a">>,
      <<" ", "b">>,
      <<"#", " ", "a">>,
      <<"-", " ", "a">>,
      <<"-", "-", "-">>,
      <<">", "a">>,
      <<"|", "a", "|">>,
      <<"!", "[", "a", "]", "(", "u", ")">> }

QuotableTexts == {Join(ls, <<"\n">>) : ls \in SeqsUpTo(QuotableLines, MaxLines)}

\* the texts quoted once and twice
QuotedTexts == {Quoted(t) : t \in QuotableTexts} \cup {Quoted(Quoted(t)) : t \in QuotableTexts}

\* the documents of the parser runs that look at single kinds of block
BlockTexts == ListTexts \cup TableTexts \cup RuleTexts \cup QuotedTexts

\* the lines that follow the first line of a paragraph: blank, text, and a
\* line of every kind of block
MaxParagraphLines == 2
ParagraphLines ==
    { <<>>,
      <<" ">>,
      <<"b">>,
      <<"#", " ", "a">>,
      <<"*", "*", "*">>,
      <<Backtick, Backtick, Backtick>>,
      <<" ", " ", " ", " ", "a">>,
      <<"\t", "a">>,
      <<">", " ", "a">>,
      <<"|", "a", "|">>,
      <<"-", " ", "a">>,
      <<"1", ".", " ", "a">>,
      <<"!", "[", "a", "]", "(", "u", ")">> }

\* the documents that start with a line of paragraph text
ParagraphTexts ==
    {Join(<<<<"a">>>> \o ls, <<"\n">>) : ls \in SeqsUpTo(ParagraphLines, MaxParagraphLines)}

\* the lines of the documents of quotes with gaps: quoted lines, blank lines,
\* a line of text
MaxQuoteLines == 4
QuoteLines ==
    { <<">", " ", "a">>,
      <<">", "b">>,
      <<>>,
      <<" ">>,
      <<"c">> }

QuoteGapTexts == {Join(ls, <<"\n">>) : ls \in SeqsUpTo(QuoteLines, MaxQuoteLines)}

\* the lines of the documents of nested lists: items of both kinds at three
\* indents, a continuation line, a blank line, a line of text
MaxNestedLines == 3
NestedLines ==
    { <<"-", " ", "a">>,
      <<" ", " ", "-", " ", "b">>,
      <<" ", " ", " ", " ", "*", " ", "c">>,
      <<"1", ".", " ", "a">>,
      <<" ", " ", " ", "2", ".", " ", "b">>,
      <<" ", " ", "c">>,
      <<>>,
      <<"d">> }

NestedListTexts == {Join(ls, <<"\n">>) : ls \in SeqsUpTo(NestedLines, MaxNestedLines)}

\* the source lines of code blocks: empty, short, of ten, eleven and
\* twenty-three characters
MaxCodeLines == 3
CodeLetters == <<"a", "b", "c", "d", "e", "g", "h">>
CodeLineOf(n) == [k \in 1..n |-> CodeLetters[((k - 1) % 7) + 1]]
CodeLines == {CodeLineOf(n) : n \in {0, 2, 10, 11, 23}}
CodeBlocks == {CodeBlock(Join(ls, <<"\n">>), None) : ls \in SeqsUpTo(CodeLines, MaxCodeLines)}

\* widths narrower than the padding, of fewer than ten, of eleven and of
\* forty-nine characters
CodeWidths == {Px(10), Px(50), Px(108), Px(400)}

CodeStyles ==
    { DefaultStyle,
      [DefaultStyle EXCEPT !.base_font_size = Px(20), !.code_block_padding = Px(4)] }

\* the tables the parser gives for a header of one or two cells, a separator
\* with or without alignments, and body rows of one to three cells
MaxTableRows == 2
TableHeaders == { <<"|", "a", "|">>, <<"|", "a", "|", "b", "|">> }
TableSeparators ==
    { <<"|", "-", "|">>,
      <<"|", ":", "-", "|", "-", ":", "|">>,
      <<"|", ":", "-", ":", "|", "-", "|", "-", ":", "|">> }
TableBodyRows ==
    { <<"|", "c", "|">>, <<"|", "a", "|", "b", "|">>, <<"|", "a", "|", "b", "|", "c", "|">> }

ParsedTables ==
    { _parse_table(<<h, sep>> \o rows, 1).table.val :
        h \in TableHeaders, sep \in TableSeparators,
        rows \in SeqsUpTo(TableBodyRows, MaxTableRows) }

\* ctx.width: narrower than the cell padding, and wide; ctx.x
TableWidths == {Px(10), Px(400)}
TableOrigins == {0, Px(20)}

\* "\n".join(lines) for every document of at most MaxLines lines of the pool
DocumentTexts == {Join(ls, <<"\n">>) : ls \in SeqsUpTo(LinePool, MaxLines)}

WhitespaceTexts == SeqsUpTo({" ", "\t", "\n", "\r"}, MaxWsLen)

InlineAlphabet == {"a", "*", Backtick}

InlineTokens ==
    { <<"a">>, <<" ">>, <<"_">>, <<"_", "_">>, <<"*">>, <<"!">>, <<Backtick>>,
      <<"[", "a", "]", "(", "u", ")">>,
      <<"[", "]", "(", "u", ")">>,
      <<"[", "a", "]", "(", "u", " ", "\"", "t", "'", ")">> }

InlineTexts ==
    SeqsUpTo(InlineAlphabet, MaxInlineLen)
        \cup {Concat(ts) : ts \in SeqsUpTo(InlineTokens, MaxTokens)}

\* the arguments of the constructor calls
MaxLevel == 8       \* largest heading level constructed

HeadingLevels == (0 - 2)..MaxLevel
HeadingSpans == {<<>>, <<PlainSpan(<<"a">>).obj>>}
SpanTexts == {<<>>, <<"a">>}
SpanUrls == {None, Some(<<>>), Some(<<"u">>), Some(<<"u", "/", "v">>)}
SpanTitles == {None, Some(<<"t">>)}

\* the arguments of wrap_text
MaxWrapLen == 4     \* characters of a text to wrap
MaxWidthSteps == 6  \* max_width goes up to 5 * MaxWidthSteps

\* measurers: a font that did not load, and two fonts whose cmap lacks "A"
NoFont == [available |-> FALSE, units_per_em |-> 20, advance |-> <<>>]
WideFont ==
    [available |-> TRUE, units_per_em |-> 20,
     advance |-> [c \in {"i", "a", "m", " "} |->
                     CASE c = "i" -> 5 [] c = "a" -> 10 [] c = "m" -> 16 [] c = " " -> 5]]
NarrowFont ==
    [available |-> TRUE, units_per_em |-> 20,
     advance |-> [c \in {"i", "a", "m", " "} |->
                     CASE c = "i" -> 2 [] c = "a" -> 9 [] c = "m" -> 13 [] c = " " -> 4]]

\* the measurers a caller passes, and those get_default_measurer can give:
\* None, or the measurer of a system font that loaded
Measurers == {None, Some(NoFont), Some(WideFont), Some(NarrowFont)}
DefaultMeasurers == {None, Some(WideFont), Some(NarrowFont)}

WrapAlphabet == {"i", "a", "m", "A", " "}
WrapTexts == SeqsUpTo(WrapAlphabet, MaxWrapLen)
WrapWidths == {5 * n : n \in 1..MaxWidthSteps}

\* the arguments of render and measure
MaxBlocks == 2      \* blocks of a document to lay out

TextOf(text) == PlainSpan(text).obj

BlockPool ==
    { Paragraph(<<>>),
      Paragraph(<<TextOf(<<"a">>)>>),
      Paragraph(<<TextOf(<<"a", "a", " ", "m", "m", " ", "i", "i", " ", "a">>)>>),
      Paragraph(<<Span(<<"a", "a">>, "bold", None, None).obj, TextOf(<<" ", "a">>),
                  Span(<<"i", "i">>, "code", None, None).obj,
                  Span(<<"a">>, "link", Some(<<"u">>), None).obj>>),
      Heading(1, <<TextOf(<<"A", " ", "a">>)>>).obj,
      Heading(3, <<TextOf(<<"a">>)>>).obj,
      Heading(6, <<>>).obj,
      CodeBlock(<<"a", "\n", "\n", "b">>, None),
      CodeBlock(<<"a", "a", "a", "a", "a", "a", "a", "a", "a", "a", "a", "a">>, Some(<<"p">>)),
      Blockquote(<<>>),
      Blockquote(<<Paragraph(<<TextOf(<<"a", " ", "a">>)>>)>>),
      Blockquote(<<Heading(3, <<TextOf(<<"a">>)>>).obj, HorizontalRule>>),
      Blockquote(<<ImageBlock([url |-> <<"u">>]).obj>>),
      UnorderedList(<<>>),
      UnorderedList(<<ListItem(<<TextOf(<<"a">>)>>), ListItem(<<TextOf(<<"m", " ", "m">>)>>)>>),
      OrderedList(<<ListItem(<<TextOf(<<"a">>)>>)>>, 1),
      HorizontalRule,
      Table(TableRow(<<TableCell(<<TextOf(<<"a">>)>>, TRUE, None)>>),
            <<TableRow(<<TableCell(<<TextOf(<<"b">>)>>, FALSE, None)>>)>>, <<None>>),
      ImageBlock([url |-> <<"u">>, alt |-> <<"a">>]).obj,
      ListItem(<<TextOf(<<"a">>)>>) }

RenderDocs == SeqsUpTo(BlockPool, MaxBlocks)
RenderWidths == {Px(60), Px(400)}
RenderPaddings == {0, Px(20), 62500}
RenderStyles ==
    { DefaultStyle,
      [DefaultStyle EXCEPT !.base_font_size = Px(13)],
      [DefaultStyle EXCEPT !.code_block_overflow = "show"] }

MaxLayoutBlocks == 3 \* blocks of a document laid out block by block
MaxSpans == 3       \* spans of a text block wrapped word by word

\* spans: one word, words, bold, punctuation, a space at either end, two
\* spaces in a row, code, no text
RunSpans ==
    { TextOf(<<"a">>),
      TextOf(<<"a", "a", " ", "m", "m">>),
      Span(<<"a", "a">>, "bold", None, None).obj,
      TextOf(<<".">>),
      TextOf(<<" ", "a">>),
      TextOf(<<"a", " ">>),
      TextOf(<<"a", " ", " ", "m">>),
      Span(<<"i", "i">>, "code", None, None).obj,
      TextOf(<<>>) }

RunWidths == {Px(5), Px(20), Px(30), Px(50), Px(400)}

LayoutPool ==
    { Paragraph(<<>>),
      Paragraph(<<TextOf(<<"a", "a", " ", "m", "m", " ", "i", "i", " ", "a">>)>>),
      Heading(1, <<TextOf(<<"A", " ", "a">>)>>).obj,
      CodeBlock(<<"a", "\n", "\n", "b">>, None),
      HorizontalRule,
      ImageBlock([url |-> <<"u">>, alt |-> <<"a">>]).obj }

LayoutDocs == SeqsUpTo(LayoutPool, MaxLayoutBlocks)
LayoutPaddings == {0, Px(20)}
LayoutStyles == { DefaultStyle, [DefaultStyle EXCEPT !.paragraph_spacing = Px(8)] }

MaxRequests == 3    \* calls of _render_image_block on the renderers
MaxMeasures == 2    \* calls of _measure_text on the renderer

\* FontMeasurer(font_path): the measurer of the font file, unavailable when
\* the file does not load
FontMeasurer(font_path) ==
    CASE font_path = "wide.ttf" -> WideFont
      [] font_path = "narrow.ttf" -> NarrowFont
      [] OTHER -> NoFont

\* font_path and mono_font_path: not given, empty, a font, a missing file
FontPaths == {None, Some(""), Some("wide.ttf"), Some("narrow.ttf"), Some("missing.ttf")}

Truthy(path) == path.some /\ path.val # ""

MeasureTexts == { <<>>, <<"a">>, <<"m", "i">>, <<"A", " ">> }

MaxStyles == 3      \* arguments of merge_styles
MaxPrefixes == 2    \* entries of a prefix_map
MaxMapped == 2      \* calls of _map_image_url on the renderer

\* image references: relative, root-relative, "//host/...", with a scheme,
\* a data: URI, a colon not after a scheme, empty, a bracket left open
MappedUrls ==
    { <<"a">>,
      <<"/", "a">>,
      <<"/", "/", "o", "/", "a">>,
      <<"h", ":", "/", "/", "o", "/", "a">>,
      <<"d", "a", "t", "a", ":", "a">>,
      <<"1", ":", "a">>,
      <<"a", "/", ":", "a">>,
      <<>>,
      <<"/", "/", "[">>,
      <<"h", ":", "a">>,
      <<"h", ":", "/", "/", "[", "/", "a">> }

\* entries of a prefix_map: source and target
PrefixEntries ==
    { [source |-> <<"/">>, target |-> <<"h", ":", "/", "/", "c", "/">>],
      [source |-> <<"h", ":", "/", "/", "o", "/">>, target |-> <<"h", ":", "/", "/", "n", "/">>],
      [source |-> <<"d", "a", "t", "a", ":">>, target |-> <<"x", ":">>],
      [source |-> <<"a">>, target |-> <<"b", "/", "a">>] }

\* a dict: no source twice, in the order of insertion
PrefixMaps ==
    { prefix_map \in UNION { [1..n -> PrefixEntries] : n \in 0..MaxPrefixes } :
        \A j, k \in 1..Len(prefix_map) :
            j # k => prefix_map[j].source # prefix_map[k].source }

BaseUrls ==
    { <<"h", ":", "/", "/", "c", "/">>, <<"h", ":", "/", "/", "c">>, <<>>, <<"/", "b", "/", "/">> }

\* the themes and presets, and styles made with with_updates
MergeStyles ==
    { LIGHT_THEME, DARK_THEME, GITHUB_THEME, DOCUMENT_PRESET, COMPACT_PRESET, MINIMAL_PRESET,
      [StyleDefault EXCEPT !.text_color = "red"],
      [StyleDefault EXCEPT !.link_color = "blue", !.link_underline = FALSE],
      [COMPACT_PRESET EXCEPT !.image_width = Some(Px(200)), !.heading_color = Some("")] }

StyleSeqs == UNION { [1..n -> MergeStyles] : n \in 0..MaxStyles }

\* two renderer instances
Renderers == {1, 2}

ImageUrls == {<<"a">>, <<"b">>}

\* an object with the attributes of img and the attributes width and height
WithSize(img, width, height) == [width |-> width, height |-> height] @@ img

\* the images given to _render_image_block: an ImageBlock, and objects that
\* carry width and height too, with none, one or both of them set
ImageInputs ==
    { ImageBlock([url |-> <<"a">>, alt |-> <<>>]).obj,
      WithSize(ImageBlock([url |-> <<"a">>, alt |-> <<>>]).obj, None, None),
      WithSize(ImageBlock([url |-> <<"a">>, alt |-> <<>>]).obj, Some(Px(80)), None),
      WithSize(ImageBlock([url |-> <<"b">>, alt |-> <<>>]).obj, None, Some(Px(50))),
      WithSize(ImageBlock([url |-> <<"b">>, alt |-> <<>>]).obj, Some(Px(500)), Some(Px(50))) }

\* ctx.width
ImageContainerWidth == Px(400)

\* what a call of get_image_size does: it returns an ImageSize or None, or
\* raises (urlparse raises ValueError on "http://[", struct.unpack raises on a
\* BMP file of 24 bytes)
Lookups ==
    { [raised |-> "none", size |-> Some([width |-> 40, height |-> 20])],
      [raised |-> "none", size |-> None],
      [raised |-> "ValueError", size |-> None] }

\* SVGRenderer(style=..., fetch_image_sizes=...)
ImageConfigs ==
    { [fetch_image_sizes |-> TRUE, style |-> DefaultStyle],
      [fetch_image_sizes |-> TRUE,
       style |-> [DefaultStyle EXCEPT !.image_width = Some(Px(100)),
                                      !.image_height = Some(Px(30))]],
      [fetch_image_sizes |-> FALSE, style |-> DefaultStyle],
      [fetch_image_sizes |-> TRUE,
       style |-> [DefaultStyle EXCEPT !.image_enforce_aspect_ratio = TRUE]],
      [fetch_image_sizes |-> TRUE,
       style |-> [DefaultStyle EXCEPT !.image_enforce_aspect_ratio = TRUE,
                                      !.image_height = Some(Px(30))]] }

-----------------------------------------------------------------------------
(* The parser as a state machine: one step per iteration of _parse_blocks *)

ParserIdle ==
    /\ md_text = <<>> /\ md_lines = <<>> /\ md_i = 0 /\ md_blocks = <<>>
    /\ md_pc = "idle"
    /\ md_last = [branch |-> "none", kind |-> "none", consumed |-> 0, status |-> "ok"]

InlineIdle ==
    /\ in_text = <<>> /\ in_remaining = <<>> /\ in_spans = <<>> /\ in_pc = "idle"
    /\ in_last = [type |-> "none", pos |-> 0, end |-> 0, before |-> <<>>, added |-> 0]

TypesIdle ==
    /\ ty_call = [cls |-> "none"]
    /\ ty_result = [raised |-> "none"]

WrapNothing == [branch |-> "none", word |-> <<>>, k |-> 0, placed |-> <<>>]

WrapIdle ==
    /\ wr_text = <<>> /\ wr_max = 0 /\ wr_mono = FALSE /\ wr_k = 0 /\ wr_lines = <<>>
    /\ wr_current = <<>> /\ wr_width = 0 /\ wr_pc = "idle"
    /\ wr_last = WrapNothing
    /\ wr_measurer = None

NotRendered == [called |-> FALSE, raised |-> "none", total_height |-> 0, height_attr |-> 0]
NotMeasured == [called |-> FALSE, raised |-> "none", width |-> 0, height |-> 0]

RenderIdle ==
    /\ rn_doc = <<>> /\ rn_width = 0 /\ rn_padding = 0 /\ rn_style = DefaultStyle
    /\ rn_rendered = NotRendered /\ rn_measured = NotMeasured

NoRequest ==
    [renderer |-> 0, img |-> [block_type |-> "none"], from |-> "none", actual |-> None,
     sized |-> Sized(0, 0)]

ImagesIdle ==
    /\ im_config = <<>> /\ im_cache = <<>> /\ im_lookups = <<>>
    /\ im_requests = 0 /\ im_last = NoRequest

NotMeasuredText ==
    [called |-> FALSE, text |-> <<>>, is_bold |-> FALSE, is_italic |-> FALSE,
     is_mono |-> FALSE, branch |-> "none", raised |-> "none", width |-> 0]

NotMapped == [called |-> FALSE, url |-> <<>>, raised |-> "none", result |-> <<>>]

MapperIdle ==
    mp_mapper = None /\ mp_pc = "off" /\ mp_count = 0 /\ mp_last = NotMapped

NoWord ==
    [stepped |-> FALSE, word |-> <<>>, word_width |-> 0, clean_width |-> 0,
     width_before |-> 0, line_before |-> <<>>, lines_before |-> 0]

CodeIdle ==
    /\ cw_call = <<>> /\ cw_max_chars = 0 /\ cw_lines = <<>> /\ cw_k = 0
    /\ cw_wrapped = <<>> /\ cw_pc = "off" /\ cw_result = Used(0)

TableIdle ==
    /\ tb_call = <<>> /\ tb_col_width = 0 /\ tb_k = 0 /\ tb_cells = <<>>
    /\ tb_pc = "off" /\ tb_result = Used(0)

RunsIdle ==
    /\ rw_spans = <<>> /\ rw_max = 0 /\ rw_k = 0 /\ rw_i = 0 /\ rw_ws = <<>>
    /\ rw_pc = "off" /\ rw_last = NoWord

LayoutIdle ==
    /\ ly_call = <<>> /\ ly_ctx = <<>> /\ ly_pc = "off" /\ ly_k = 0 /\ ly_current_y = 0
    /\ ly_placed = <<>> /\ ly_total = 0

MergeIdle ==
    /\ mg_styles = <<>> /\ mg_pc = "off" /\ mg_i = 0 /\ mg_kwargs = <<>>
    /\ mg_result = None

MeasurerIdle ==
    /\ ms_args = <<>> /\ ms_self = <<>> /\ ms_pc = "idle" /\ ms_calls = {}
    /\ ms_count = 0 /\ ms_last = NotMeasuredText

ParserInit ==
    /\ md_text \in DocumentTexts \cup WhitespaceTexts
    /\ md_lines = <<>> /\ md_i = 0 /\ md_blocks = <<>>
    /\ md_pc = "start"
    /\ md_last = [branch |-> "none", kind |-> "none", consumed |-> 0, status |-> "ok"]

\* parse(text): the early return, or the call of _parse_blocks
ParseCall ==
    /\ md_pc = "start"
    /\ IF md_text = <<>> \/ IsBlank(md_text)
       THEN md_pc' = "done" /\ UNCHANGED <<md_lines, md_i>>
       ELSE md_pc' = "loop" /\ md_lines' = split_lines(md_text) /\ md_i' = 1
    /\ UNCHANGED <<md_text, md_blocks, md_last, notParser>>

\* "Skip empty lines"
SkipBlank ==
    /\ md_pc = "loop" /\ md_i <= Len(md_lines) /\ IsBlank(md_lines[md_i])
    /\ md_i' = md_i + 1
    /\ md_last' = [branch |-> "blank", kind |-> "none", consumed |-> 1, status |-> "ok"]
    /\ UNCHANGED <<md_text, md_lines, md_blocks, md_pc, notParser>>

\* the effect of one iteration at a non-blank line
Iterate(it) ==
    /\ md_last' = [branch |-> it.branch, kind |-> it.kind, consumed |-> it.consumed,
                   status |-> it.status]
    /\ md_blocks' = md_blocks \o it.new
    /\ md_i' = md_i + it.consumed
    /\ md_pc' = CASE it.status = "ok" -> "loop"
                  [] it.status = "hung" -> "hung"
                  [] OTHER -> "raised"
    /\ UNCHANGED <<md_text, md_lines, notParser>>

\* one iteration at a non-blank line: _try_parse_block returns a block (or
\* raises, or never returns), or the paragraph lines are collected
ParseBlock ==
    /\ md_pc = "loop" /\ md_i <= Len(md_lines) /\ ~IsBlank(md_lines[md_i])
    /\ Iterate(BlockIteration(md_lines, md_i))

\* the loop of _parse_blocks ends and parse returns blocks
ParseReturn ==
    /\ md_pc = "loop" /\ md_i > Len(md_lines)
    /\ md_pc' = "done"
    /\ UNCHANGED <<md_text, md_lines, md_i, md_blocks, md_last, notParser>>

Init == ParserInit /\ InlineIdle /\ TypesIdle /\ WrapIdle /\ RenderIdle /\ ImagesIdle
    /\ MeasurerIdle /\ MergeIdle /\ MapperIdle /\ LayoutIdle /\ RunsIdle /\ CodeIdle /\ TableIdle

Next == ParseCall \/ SkipBlank \/ ParseBlock \/ ParseReturn

Spec == Init /\ [][Next]_vars

\* the same parser on documents of lists, tables, rules and quotes
BlocksInit ==
    /\ md_text \in BlockTexts
    /\ md_lines = <<>> /\ md_i = 0 /\ md_blocks = <<>>
    /\ md_pc = "start"
    /\ md_last = [branch |-> "none", kind |-> "none", consumed |-> 0, status |-> "ok"]

InitBlocks == BlocksInit /\ InlineIdle /\ TypesIdle /\ WrapIdle /\ RenderIdle /\ ImagesIdle
    /\ MeasurerIdle /\ MergeIdle /\ MapperIdle /\ LayoutIdle /\ RunsIdle /\ CodeIdle /\ TableIdle

NextBlocks == ParseCall \/ SkipBlank \/ ParseBlock \/ ParseReturn

SpecBlocks == InitBlocks /\ [][NextBlocks]_vars

\* the same parser on the documents that start with paragraph text
ParagraphsInit ==
    /\ md_text \in ParagraphTexts
    /\ md_lines = <<>> /\ md_i = 0 /\ md_blocks = <<>>
    /\ md_pc = "start"
    /\ md_last = [branch |-> "none", kind |-> "none", consumed |-> 0, status |-> "ok"]

InitParagraphs ==
    ParagraphsInit /\ InlineIdle /\ TypesIdle /\ WrapIdle /\ RenderIdle /\ ImagesIdle
    /\ MeasurerIdle /\ MergeIdle /\ MapperIdle /\ LayoutIdle /\ RunsIdle /\ CodeIdle /\ TableIdle

NextParagraphs == ParseCall \/ SkipBlank \/ ParseBlock \/ ParseReturn

SpecParagraphs == InitParagraphs /\ [][NextParagraphs]_vars

\* the same parser on the documents of quotes with gaps
QuotesInit ==
    /\ md_text \in QuoteGapTexts
    /\ md_lines = <<>> /\ md_i = 0 /\ md_blocks = <<>>
    /\ md_pc = "start"
    /\ md_last = [branch |-> "none", kind |-> "none", consumed |-> 0, status |-> "ok"]

InitQuotes ==
    QuotesInit /\ InlineIdle /\ TypesIdle /\ WrapIdle /\ RenderIdle /\ ImagesIdle
    /\ MeasurerIdle /\ MergeIdle /\ MapperIdle /\ LayoutIdle /\ RunsIdle /\ CodeIdle /\ TableIdle

NextQuotes == ParseCall \/ SkipBlank \/ ParseBlock \/ ParseReturn

SpecQuotes == InitQuotes /\ [][NextQuotes]_vars

\* the same parser on the documents of nested lists
ListsInit ==
    /\ md_text \in NestedListTexts
    /\ md_lines = <<>> /\ md_i = 0 /\ md_blocks = <<>>
    /\ md_pc = "start"
    /\ md_last = [branch |-> "none", kind |-> "none", consumed |-> 0, status |-> "ok"]

InitLists ==
    ListsInit /\ InlineIdle /\ TypesIdle /\ WrapIdle /\ RenderIdle /\ ImagesIdle
    /\ MeasurerIdle /\ MergeIdle /\ MapperIdle /\ LayoutIdle /\ RunsIdle /\ CodeIdle /\ TableIdle

NextLists == ParseCall \/ SkipBlank \/ ParseBlock \/ ParseReturn

SpecLists == InitLists /\ [][NextLists]_vars

-----------------------------------------------------------------------------
(* _parse_inline as a state machine: one step per iteration of its loop *)

InlineInit ==
    /\ in_text \in InlineTexts
    /\ in_remaining = <<>> /\ in_spans = <<>> /\ in_pc = "start"
    /\ in_last = [type |-> "none", pos |-> 0, end |-> 0, before |-> <<>>, added |-> 0]

\* _parse_inline(text): the early return, or the loop is entered
InlineCall ==
    /\ in_pc = "start"
    /\ IF in_text = <<>> THEN in_pc' = "done" /\ UNCHANGED in_remaining
       ELSE in_pc' = "loop" /\ in_remaining' = in_text
    /\ UNCHANGED <<in_text, in_spans, in_last, notInline>>

\* the effect of the iteration it
InlineApply(it) ==
    /\ in_spans' = in_spans \o it.new
    /\ in_remaining' = IF it.raised = "none" /\ ~it.break THEN it.rest ELSE in_remaining
    /\ in_pc' = IF it.break THEN "done" ELSE IF it.raised = "none" THEN "loop" ELSE "raised"
    /\ in_last' = [type |-> it.type, pos |-> it.pos, end |-> it.end, before |-> in_remaining,
                   added |-> Len(it.new)]
    /\ UNCHANGED <<in_text, notInline>>

\* one iteration of "while remaining": a match is processed, or the rest is
\* added as text and the loop is left
InlineStep ==
    /\ in_pc = "loop" /\ in_remaining # <<>>
    /\ InlineApply(InlineIteration(in_remaining))

\* "while remaining" ends
InlineReturn ==
    /\ in_pc = "loop" /\ in_remaining = <<>>
    /\ in_pc' = "done"
    /\ UNCHANGED <<in_text, in_remaining, in_spans, in_last, notInline>>

InitInline == InlineInit /\ ParserIdle /\ TypesIdle /\ WrapIdle /\ RenderIdle /\ ImagesIdle
    /\ MeasurerIdle /\ MergeIdle /\ MapperIdle /\ LayoutIdle /\ RunsIdle /\ CodeIdle /\ TableIdle

NextInline == InlineCall \/ InlineStep \/ InlineReturn

SpecInline == InitInline /\ [][NextInline]_vars

-----------------------------------------------------------------------------
(* The constructors of types.py called directly, as a caller of the library *)
(* does: one step per construction                                           *)

ConstructHeading ==
    \E level \in HeadingLevels, spans \in HeadingSpans :
        /\ ty_call' = [cls |-> "Heading", level |-> level, spans |-> spans]
        /\ ty_result' = Heading(level, spans)
        /\ UNCHANGED notTypes

ConstructSpan ==
    \E text \in SpanTexts, span_type \in SpanTypes, url \in SpanUrls, title \in SpanTitles :
        /\ ty_call' = [cls |-> "Span", text |-> text, span_type |-> span_type,
                       url |-> url, title |-> title]
        /\ ty_result' = Span(text, span_type, url, title)
        /\ UNCHANGED notTypes

InitTypes == TypesIdle /\ ParserIdle /\ InlineIdle /\ WrapIdle /\ RenderIdle /\ ImagesIdle
    /\ MeasurerIdle /\ MergeIdle /\ MapperIdle /\ LayoutIdle /\ RunsIdle /\ CodeIdle /\ TableIdle

NextTypes == ConstructHeading \/ ConstructSpan

SpecTypes == InitTypes /\ [][NextTypes]_vars


-----------------------------------------------------------------------------
(* wrap_text as a state machine: one step per word of the text *)

WrapInit ==
    /\ wr_text \in WrapTexts
    /\ wr_max \in WrapWidths
    /\ wr_mono \in BOOLEAN
    /\ wr_k = 0 /\ wr_lines = <<>> /\ wr_current = <<>> /\ wr_width = 0
    /\ wr_pc = "start"
    /\ wr_last = WrapNothing
    /\ wr_measurer = None

\* the entry of wrap_text: the empty text returns [""] at once
WrapCall ==
    /\ wr_pc = "start"
    /\ IF wr_text = <<>>
       THEN wr_lines' = << <<>> >> /\ wr_pc' = "done" /\ wr_k' = wr_k
       ELSE wr_lines' = <<>> /\ wr_pc' = "loop" /\ wr_k' = 1
    /\ UNCHANGED <<wr_text, wr_max, wr_mono, wr_current, wr_width, wr_last, wr_measurer,
                   notWrap>>

\* the pieces the iteration put on lines of their own: the chunks of a
\* broken word, or the word itself
WrapPlaced(st, after) ==
    IF after.branch = "break"
    THEN SubSeq(after.lines, Len(st.lines) + 1, Len(after.lines)) \o after.current
    ELSE <<after.current[Len(after.current)]>>

WrapApply(word, st, after) ==
    /\ wr_lines' = after.lines
    /\ wr_current' = after.current
    /\ wr_width' = after.width
    /\ wr_k' = wr_k + 1
    /\ wr_last' = [branch |-> after.branch, word |-> word, k |-> wr_k,
                   placed |-> WrapPlaced(st, after)]
    /\ UNCHANGED <<wr_text, wr_max, wr_mono, wr_pc, wr_measurer, notWrap>>

WrapIterate(word, st) == WrapApply(word, st, WrapWord(st, word, wr_max, wr_mono))

WrapStep ==
    /\ wr_pc = "loop"
    /\ wr_k <= Len(SplitOn(wr_text, " "))
    /\ WrapIterate(SplitOn(wr_text, " ")[wr_k],
                   [lines |-> wr_lines, current |-> wr_current, width |-> wr_width])

WrapReturn ==
    /\ wr_pc = "loop"
    /\ wr_k > Len(SplitOn(wr_text, " "))
    /\ wr_lines' = WrapFinish(wr_lines, wr_current)
    /\ wr_pc' = "done"
    /\ UNCHANGED <<wr_text, wr_max, wr_mono, wr_k, wr_current, wr_width, wr_last, wr_measurer,
                   notWrap>>

\* create_precise_wrapper and the function it returns, called once: with
\* no usable measurer that function is wrap_text, stepped by the actions above
WrapperInit ==
    /\ wr_text \in WrapTexts
    /\ wr_max \in WrapWidths
    /\ \/ wr_pc = "start" /\ wr_mono \in BOOLEAN /\ wr_measurer = None
       \/ wr_pc = "create" /\ wr_mono = FALSE /\ wr_measurer \in Measurers
    /\ wr_k = 0 /\ wr_lines = <<>> /\ wr_current = <<>> /\ wr_width = 0
    /\ wr_last = WrapNothing

CreateWrapper ==
    /\ wr_pc = "create"
    /\ \E measurer \in (IF wr_measurer.some THEN {wr_measurer} ELSE DefaultMeasurers) :
          /\ wr_measurer' = measurer
          /\ wr_pc' = IF WrapperFor(measurer) = "wrap_text" THEN "start" ELSE "wrapper"
    /\ UNCHANGED <<wr_text, wr_max, wr_mono, wr_k, wr_lines, wr_current, wr_width, wr_last,
                   notWrap>>

PreciseEnter(entry) ==
    /\ wr_lines' = entry.lines
    /\ wr_pc' = entry.pc
    /\ wr_k' = IF entry.pc = "done" THEN wr_k ELSE 1

PreciseCall ==
    /\ wr_pc = "wrapper"
    /\ PreciseEnter(PreciseEntry(wr_text))
    /\ UNCHANGED <<wr_text, wr_max, wr_mono, wr_current, wr_width, wr_last, wr_measurer,
                   notWrap>>

PreciseApply(word, after) ==
    /\ wr_lines' = after.lines
    /\ wr_current' = after.current
    /\ wr_width' = after.width
    /\ wr_k' = wr_k + 1
    /\ wr_pc' = IF after.raised # "none" THEN "raised" ELSE wr_pc
    /\ wr_last' = [branch |-> after.branch, word |-> word, k |-> wr_k,
                   placed |-> <<word>>]
    /\ UNCHANGED <<wr_text, wr_max, wr_mono, wr_measurer, notWrap>>

PreciseIterate(word) ==
    PreciseApply(word,
                 PreciseWord([lines |-> wr_lines, current |-> wr_current, width |-> wr_width],
                             word, wr_max, wr_measurer.val))

PreciseStep ==
    /\ wr_pc = "precise"
    /\ wr_k <= Len(SplitOn(wr_text, " "))
    /\ PreciseIterate(SplitOn(wr_text, " ")[wr_k])

PreciseReturn ==
    /\ wr_pc = "precise"
    /\ wr_k > Len(SplitOn(wr_text, " "))
    /\ wr_lines' = PreciseFinish(wr_lines, wr_current)
    /\ wr_pc' = "done"
    /\ UNCHANGED <<wr_text, wr_max, wr_mono, wr_k, wr_current, wr_width, wr_last, wr_measurer,
                   notWrap>>

InitWrapper == WrapperInit /\ ParserIdle /\ InlineIdle /\ TypesIdle /\ RenderIdle /\ ImagesIdle
    /\ MeasurerIdle /\ MergeIdle /\ MapperIdle /\ LayoutIdle /\ RunsIdle /\ CodeIdle /\ TableIdle

NextWrapper ==
    \/ WrapCall \/ WrapStep \/ WrapReturn
    \/ CreateWrapper \/ PreciseCall \/ PreciseStep \/ PreciseReturn

SpecWrapper == InitWrapper /\ [][NextWrapper]_vars

InitWrap == WrapInit /\ ParserIdle /\ InlineIdle /\ TypesIdle /\ RenderIdle /\ ImagesIdle
    /\ MeasurerIdle /\ MergeIdle /\ MapperIdle /\ LayoutIdle /\ RunsIdle /\ CodeIdle /\ TableIdle

NextWrap == WrapCall \/ WrapStep \/ WrapReturn

SpecWrap == InitWrap /\ [][NextWrap]_vars

-----------------------------------------------------------------------------
(* One renderer given one document: render and measure, called in any order *)

RenderInit ==
    /\ rn_doc \in RenderDocs
    /\ rn_width \in RenderWidths
    /\ rn_padding \in RenderPaddings
    /\ rn_style \in RenderStyles
    /\ rn_rendered = NotRendered
    /\ rn_measured = NotMeasured

\* _build_svg stamps format_number(total_height) on the <svg> element
RenderStamp(r) ==
    \E height_attr \in format_number(r.height) :
        rn_rendered' = [called |-> TRUE, raised |-> r.raised, total_height |-> r.height,
                        height_attr |-> height_attr]

Render ==
    /\ ~rn_rendered.called
    /\ RenderStamp(render(rn_doc, rn_width, rn_padding, rn_style))
    /\ UNCHANGED <<rn_doc, rn_width, rn_padding, rn_style, rn_measured, notRender>>

MeasureReturn(size) ==
    rn_measured' = [called |-> TRUE, raised |-> size.raised, width |-> size.width,
                    height |-> size.height]

Measure ==
    /\ ~rn_measured.called
    /\ MeasureReturn(measure(rn_doc, rn_width, rn_padding, rn_style))
    /\ UNCHANGED <<rn_doc, rn_width, rn_padding, rn_style, rn_rendered, notRender>>

InitRender == RenderInit /\ ParserIdle /\ InlineIdle /\ TypesIdle /\ WrapIdle /\ ImagesIdle
    /\ MeasurerIdle /\ MergeIdle /\ MapperIdle /\ LayoutIdle /\ RunsIdle /\ CodeIdle /\ TableIdle

NextRender == Render \/ Measure

SpecRender == InitRender /\ [][NextRender]_vars

-----------------------------------------------------------------------------
(* Two renderers and the images they are given: one step per call of        *)
(* _render_image_block, which render and measure make for an image block    *)

ImagesInit ==
    /\ im_config \in [Renderers -> ImageConfigs]
    /\ im_cache = [r \in Renderers |-> [u \in ImageUrls |-> None]]
    /\ im_lookups = [r \in Renderers |-> [u \in ImageUrls |-> [returned |-> 0, raised |-> 0]]]
    /\ im_requests = 0
    /\ im_last = NoRequest

\* _get_image_size: where the size comes from.  In cache an absent URL is
\* None and a stored result v, itself None or an ImageSize, is Some(v)
SizeSource(config, cache, url) ==
    IF cache[url].some THEN "cache"
    ELSE IF config.style.image_enforce_aspect_ratio THEN "none"
    ELSE IF ~config.fetch_image_sizes THEN "none"
    ELSE "fetch"

\* the rest of _render_image_block once _get_image_size returned actual
ImageReturn(r, img, from, actual) ==
    /\ im_requests' = im_requests + 1
    /\ im_last' = [renderer |-> r, img |-> img, from |-> from, actual |-> actual,
                   sized |-> ImageSized(img, ImageContainerWidth, im_config[r].style, actual)]

\* _render_image_block, the URL being in the cache
ImageFromCache(r, img) ==
    /\ im_requests < MaxRequests
    /\ SizeSource(im_config[r], im_cache[r], img.url) = "cache"
    /\ ImageReturn(r, img, "cache", im_cache[r][img.url].val)
    /\ UNCHANGED <<im_config, im_cache, im_lookups, notImages>>

\* _render_image_block, the size not being fetched
ImageNotFetched(r, img) ==
    /\ im_requests < MaxRequests
    /\ SizeSource(im_config[r], im_cache[r], img.url) = "none"
    /\ ImageReturn(r, img, "none", None)
    /\ UNCHANGED <<im_config, im_cache, im_lookups, notImages>>

\* _render_image_block, get_image_size being called: its result is stored,
\* its exception leaves _render_image_block
ImageFetched(r, img, lookup) ==
    /\ im_requests < MaxRequests
    /\ SizeSource(im_config[r], im_cache[r], img.url) = "fetch"
    /\ IF lookup.raised # "none"
       THEN /\ im_lookups' = [im_lookups EXCEPT ![r][img.url].raised = @ + 1]
            /\ im_requests' = im_requests + 1
            /\ im_last' = [renderer |-> r, img |-> img, from |-> "fetch", actual |-> None,
                           sized |-> [raised |-> lookup.raised, img_width |-> 0,
                                      img_height |-> 0]]
            /\ UNCHANGED im_cache
       ELSE /\ im_lookups' = [im_lookups EXCEPT ![r][img.url].returned = @ + 1]
            /\ im_cache' = [im_cache EXCEPT ![r][img.url] = Some(lookup.size)]
            /\ ImageReturn(r, img, "fetch", lookup.size)
    /\ UNCHANGED <<im_config, notImages>>

InitImages ==
    ImagesInit /\ ParserIdle /\ InlineIdle /\ TypesIdle /\ WrapIdle /\ RenderIdle
    /\ MeasurerIdle /\ MergeIdle /\ MapperIdle /\ LayoutIdle /\ RunsIdle /\ CodeIdle /\ TableIdle

NextImages ==
    \E r \in Renderers, img \in ImageInputs :
        \/ ImageFromCache(r, img)
        \/ ImageNotFetched(r, img)
        \/ \E lookup \in Lookups : ImageFetched(r, img, lookup)

SpecImages == InitImages /\ [][NextImages]_vars

-----------------------------------------------------------------------------
(* One renderer and its font measurers: the construction, then one step per *)
(* call of _measure_text, which render and measure make for every word      *)

MeasurerInit ==
    /\ ms_args \in [use_precise_measurement : BOOLEAN, font_path : FontPaths,
                     mono_font_path : FontPaths, default : DefaultMeasurers]
    /\ ms_self = <<>>
    /\ ms_pc = "new"
    /\ ms_calls = {}
    /\ ms_count = 0
    /\ ms_last = NotMeasuredText

\* the fields __init__ sets
Constructed(body, mono) ==
    /\ ms_self' = [measurer |-> body, mono_measurer |-> mono.mono_measurer,
                   mono_char_width |-> mono.mono_char_width]
    /\ ms_calls' = mono.calls

\* SVGRenderer.__init__
Construct ==
    /\ ms_pc = "new"
    /\ Constructed(IF ~ms_args.use_precise_measurement THEN None
                   ELSE IF Truthy(ms_args.font_path)
                   THEN BodySetup(FontMeasurer(ms_args.font_path.val))
                   ELSE ms_args.default,
                   IF ms_args.use_precise_measurement /\ Truthy(ms_args.mono_font_path)
                   THEN MonoSetup(FontMeasurer(ms_args.mono_font_path.val))
                   ELSE NoMono)
    /\ ms_pc' = "ready"
    /\ UNCHANGED <<ms_args, ms_count, ms_last, notMeasurer>>

MeasuredText(text, is_bold, is_italic, is_mono, r) ==
    /\ ms_last' = [called |-> TRUE, text |-> text, is_bold |-> is_bold,
                   is_italic |-> is_italic, is_mono |-> is_mono,
                   branch |-> MeasureBranch(ms_self, is_mono),
                   raised |-> r.raised, width |-> r.width]
    /\ ms_calls' = ms_calls \cup r.calls

\* SVGRenderer._measure_text
MeasureText ==
    /\ ms_pc = "ready"
    /\ ms_count < MaxMeasures
    /\ \E text \in MeasureTexts, is_bold \in BOOLEAN, is_italic \in BOOLEAN, is_mono \in BOOLEAN :
          MeasuredText(text, is_bold, is_italic, is_mono,
                       MeasureTextOn(ms_self, text, Px(14), is_bold, is_italic, is_mono,
                                     DefaultStyle))
    /\ ms_count' = ms_count + 1
    /\ UNCHANGED <<ms_args, ms_self, ms_pc, notMeasurer>>

InitMeasurer ==
    MeasurerInit /\ ParserIdle /\ InlineIdle /\ TypesIdle /\ WrapIdle /\ RenderIdle
    /\ ImagesIdle /\ MergeIdle /\ MapperIdle /\ LayoutIdle /\ RunsIdle /\ CodeIdle /\ TableIdle

NextMeasurer == Construct \/ MeasureText

SpecMeasurer == InitMeasurer /\ [][NextMeasurer]_vars

-----------------------------------------------------------------------------
(* merge_styles: the call, one step per style of the loop, the return       *)

MergeInit ==
    /\ mg_styles \in StyleSeqs
    /\ mg_pc = "idle"
    /\ mg_i = 0
    /\ mg_kwargs = <<>>
    /\ mg_result = None

\* merge_styles() with no argument returns Style(); otherwise the loop starts
MergeCall ==
    /\ mg_pc = "idle"
    /\ IF mg_styles = <<>>
       THEN mg_pc' = "done" /\ mg_result' = Some(StyleNew(<<>>)) /\ mg_i' = 0
       ELSE mg_pc' = "loop" /\ mg_result' = None /\ mg_i' = 1
    /\ UNCHANGED <<mg_styles, mg_kwargs, notMerge>>

\* for style in styles: the fields differing from the default are stored
MergeStyle ==
    /\ mg_pc = "loop"
    /\ mg_i <= Len(mg_styles)
    /\ mg_kwargs' = Overlay(mg_kwargs, mg_styles[mg_i])
    /\ mg_i' = mg_i + 1
    /\ UNCHANGED <<mg_styles, mg_pc, mg_result, notMerge>>

\* return Style(**result_kwargs)
MergeReturn ==
    /\ mg_pc = "loop"
    /\ mg_i > Len(mg_styles)
    /\ mg_result' = Some(StyleNew(mg_kwargs))
    /\ mg_pc' = "done"
    /\ UNCHANGED <<mg_styles, mg_i, mg_kwargs, notMerge>>

InitStyles ==
    MergeInit /\ ParserIdle /\ InlineIdle /\ TypesIdle /\ WrapIdle /\ RenderIdle
    /\ ImagesIdle /\ MeasurerIdle /\ MapperIdle /\ LayoutIdle /\ RunsIdle /\ CodeIdle /\ TableIdle

NextStyles == MergeCall \/ MergeStyle \/ MergeReturn

SpecStyles == InitStyles /\ [][NextStyles]_vars

-----------------------------------------------------------------------------
(* The image URL mapper of one renderer: the mapper is made, the renderer   *)
(* is constructed with it, then one step per call of _map_image_url         *)

MapperInit ==
    mp_mapper = None /\ mp_pc = "new" /\ mp_count = 0 /\ mp_last = NotMapped

\* SVGRenderer(): image_url_mapper is None
NoMapper ==
    /\ mp_pc = "new"
    /\ mp_mapper' = None
    /\ mp_pc' = "ready"
    /\ UNCHANGED <<mp_count, mp_last, notMapper>>

\* SVGRenderer(image_url_mapper=create_prefix_mapper(prefix_map))
CreatePrefixMapper ==
    /\ mp_pc = "new"
    /\ \E prefix_map \in PrefixMaps :
          mp_mapper' = Some([kind |-> "prefix", prefix_map |-> prefix_map])
    /\ mp_pc' = "ready"
    /\ UNCHANGED <<mp_count, mp_last, notMapper>>

\* SVGRenderer(image_url_mapper=create_base_url_mapper(base_url))
CreateBaseUrlMapper ==
    /\ mp_pc = "new"
    /\ \E base_url \in BaseUrls :
          mp_mapper' = Some([kind |-> "base", base_url |-> base_url])
    /\ mp_pc' = "ready"
    /\ UNCHANGED <<mp_count, mp_last, notMapper>>

Mapped(url, r) ==
    mp_last' = [called |-> TRUE, url |-> url, raised |-> r.raised, result |-> r.url]

\* SVGRenderer._map_image_url
MapImageUrl ==
    /\ mp_pc = "ready"
    /\ mp_count < MaxMapped
    /\ \E url \in MappedUrls : Mapped(url, _map_image_url(mp_mapper, url))
    /\ mp_count' = mp_count + 1
    /\ UNCHANGED <<mp_mapper, mp_pc, notMapper>>

InitMappers ==
    MapperInit /\ ParserIdle /\ InlineIdle /\ TypesIdle /\ WrapIdle /\ RenderIdle
    /\ ImagesIdle /\ MeasurerIdle /\ MergeIdle /\ LayoutIdle /\ RunsIdle /\ CodeIdle /\ TableIdle

NextMappers == NoMapper \/ CreatePrefixMapper \/ CreateBaseUrlMapper \/ MapImageUrl

SpecMappers == InitMappers /\ [][NextMappers]_vars

-----------------------------------------------------------------------------
(* render and measure block by block: the call, one step per block of the   *)
(* loop, the return                                                          *)

LayoutInit ==
    /\ ly_call \in [op : {"render", "measure"}, blocks : LayoutDocs, width : RenderWidths,
                     padding : LayoutPaddings, style : LayoutStyles]
    /\ ly_ctx = <<>>
    /\ ly_pc = "new"
    /\ ly_k = 0
    /\ ly_current_y = 0
    /\ ly_placed = <<>>
    /\ ly_total = 0

\* content_width, ctx and current_y = padding
LayoutCall ==
    /\ ly_pc = "new"
    /\ ly_ctx' = TopContext(ly_call.width, ly_call.padding)
    /\ ly_current_y' = ly_call.padding
    /\ ly_k' = 1
    /\ ly_pc' = "loop"
    /\ UNCHANGED <<ly_call, ly_placed, ly_total, notLayout>>

\* what the call of _render_block in the loop leaves: an exception, or the
\* cursor moved by the height and the spacing
LayoutPlaced(block_ctx, r) ==
    IF r.raised # "none"
    THEN /\ ly_pc' = "raised"
         /\ UNCHANGED <<ly_k, ly_current_y, ly_placed>>
    ELSE /\ ly_placed' = Append(ly_placed, [x |-> block_ctx.x, y |-> block_ctx.y,
                                            width |-> block_ctx.width, height |-> r.height])
         /\ ly_current_y' = ly_current_y + r.height + ly_call.style.paragraph_spacing
         /\ ly_k' = ly_k + 1
         /\ UNCHANGED ly_pc

LayoutIn(block_ctx) ==
    LayoutPlaced(block_ctx, _render_block(ly_call.blocks[ly_k], block_ctx.width, ly_call.style))

\* for block in blocks: one iteration
LayoutBlock ==
    /\ ly_pc = "loop"
    /\ ly_k <= Len(ly_call.blocks)
    /\ LayoutIn(with_offset(ly_ctx, 0, ly_current_y - ly_ctx.y))
    /\ UNCHANGED <<ly_call, ly_ctx, ly_total, notLayout>>

\* after the loop: the trailing spacing, total_height
LayoutReturn ==
    /\ ly_pc = "loop"
    /\ ly_k > Len(ly_call.blocks)
    /\ ly_total' = TrailingRemoved(ly_call.blocks, ly_current_y, ly_call.style) + ly_call.padding
    /\ ly_current_y' = TrailingRemoved(ly_call.blocks, ly_current_y, ly_call.style)
    /\ ly_pc' = "done"
    /\ UNCHANGED <<ly_call, ly_ctx, ly_k, ly_placed, notLayout>>

InitLayout ==
    LayoutInit /\ ParserIdle /\ InlineIdle /\ TypesIdle /\ WrapIdle /\ RenderIdle
    /\ ImagesIdle /\ MeasurerIdle /\ MergeIdle /\ MapperIdle /\ RunsIdle /\ CodeIdle /\ TableIdle

NextLayout == LayoutCall \/ LayoutBlock \/ LayoutReturn

SpecLayout == InitLayout /\ [][NextLayout]_vars

-----------------------------------------------------------------------------
(* _wrap_runs on the runs of a text block: the call, one step per word of   *)
(* the inner loop, the return                                                *)

RunsInit ==
    /\ rw_spans \in SeqsUpTo(RunSpans, MaxSpans)
    /\ rw_max \in RunWidths
    /\ rw_k = 0
    /\ rw_i = 0
    /\ rw_ws = <<>>
    /\ rw_pc = "new"
    /\ rw_last = NoWord

\* "if not runs: return []", else lines = [[]] and current_width = 0.0
RunsCall ==
    /\ rw_pc = "new"
    /\ IF _build_text_runs(rw_spans) = <<>>
       THEN /\ rw_ws' = [lines |-> <<>>, current_width |-> 0]
            /\ rw_pc' = "done"
            /\ UNCHANGED <<rw_k, rw_i>>
       ELSE /\ rw_ws' = [lines |-> << <<>> >>, current_width |-> 0]
            /\ rw_pc' = "loop"
            /\ rw_k' = 1
            /\ rw_i' = 1
    /\ UNCHANGED <<rw_spans, rw_max, rw_last, notRuns>>

\* the word of the iteration as it is measured: with the space put before it
SpacedWord(last, i, word) ==
    IF (i > 1 \/ (last # <<>> /\ ~EndsWithSpace(last[Len(last)].text))) /\ last # <<>>
    THEN <<" ">> \o word
    ELSE word

RunsStepped(run, words, last, word) ==
    /\ rw_ws' = RunsWord(rw_ws, last, run, rw_i, words[rw_i], rw_max,
                         DefaultStyle.base_font_size, DefaultStyle)
    /\ rw_last' = [stepped |-> TRUE, word |-> word,
                   word_width |-> _measure_text(word, DefaultStyle.base_font_size, run.is_bold,
                                                run.is_italic, run.is_code, DefaultStyle),
                   clean_width |-> _measure_text(LStripSpaces(word),
                                                 DefaultStyle.base_font_size, run.is_bold,
                                                 run.is_italic, run.is_code, DefaultStyle),
                   width_before |-> rw_ws.current_width, line_before |-> last,
                   lines_before |-> Len(rw_ws.lines)]
    /\ IF rw_i < Len(words)
       THEN rw_i' = rw_i + 1 /\ UNCHANGED rw_k
       ELSE rw_i' = 1 /\ rw_k' = rw_k + 1

RunsStepOn(run, words, last) ==
    RunsStepped(run, words, last, SpacedWord(last, rw_i, words[rw_i]))

\* one iteration of "for i, word in enumerate(words)"
RunsStep ==
    /\ rw_pc = "loop"
    /\ rw_k <= Len(rw_spans)
    /\ RunsStepOn(TextRun(rw_spans[rw_k]), SplitOn(rw_spans[rw_k].text, " "),
                  rw_ws.lines[Len(rw_ws.lines)])
    /\ UNCHANGED <<rw_spans, rw_max, rw_pc, notRuns>>

\* return lines
RunsReturn ==
    /\ rw_pc = "loop"
    /\ rw_k > Len(rw_spans)
    /\ rw_pc' = "done"
    /\ UNCHANGED <<rw_spans, rw_max, rw_k, rw_i, rw_ws, rw_last, notRuns>>

InitRuns ==
    RunsInit /\ ParserIdle /\ InlineIdle /\ TypesIdle /\ WrapIdle /\ RenderIdle
    /\ ImagesIdle /\ MeasurerIdle /\ MergeIdle /\ MapperIdle /\ LayoutIdle /\ CodeIdle /\ TableIdle

NextRuns == RunsCall \/ RunsStep \/ RunsReturn

SpecRuns == InitRuns /\ [][NextRuns]_vars

-----------------------------------------------------------------------------
(* _render_code_block_wrapped as a state machine: one step per source line *)

CodeInit ==
    /\ cw_call \in [code : CodeBlocks, width : CodeWidths, style : CodeStyles]
    /\ cw_max_chars = 0 /\ cw_lines = <<>> /\ cw_k = 0
    /\ cw_wrapped = <<>> /\ cw_pc = "start" /\ cw_result = Used(0)

\* the call: max_chars, and the source lines
CodeCall ==
    /\ cw_pc = "start"
    /\ cw_max_chars' = CodeMaxChars(cw_call.width, cw_call.style)
    /\ cw_lines' = SplitOn(cw_call.code.code, "\n")
    /\ cw_k' = 1
    /\ cw_pc' = "loop"
    /\ UNCHANGED <<cw_call, cw_wrapped, cw_result, notCode>>

\* the visual lines vs, each with the source line k it comes from
FromSource(vs, k) == [j \in 1..Len(vs) |-> [text |-> vs[j], source |-> k]]

\* one iteration of "for line in code.code.split": the line is appended,
\* whole or cut
CodeWrapLine ==
    /\ cw_pc = "loop" /\ cw_k <= Len(cw_lines)
    /\ cw_wrapped' = cw_wrapped \o FromSource(VisualLines(cw_lines[cw_k], cw_max_chars), cw_k)
    /\ cw_k' = cw_k + 1
    /\ UNCHANGED <<cw_call, cw_max_chars, cw_lines, cw_pc, cw_result, notCode>>

\* text_height, total_height, and the return
CodeReturn ==
    /\ cw_pc = "loop" /\ cw_k > Len(cw_lines)
    /\ cw_result' = Used(CodeHeight(Len(cw_wrapped),
                                     Hundredths(cw_call.style.base_font_size, 90),
                                     cw_call.style.code_block_padding))
    /\ cw_pc' = "done"
    /\ UNCHANGED <<cw_call, cw_max_chars, cw_lines, cw_k, cw_wrapped, notCode>>

InitCode ==
    CodeInit /\ ParserIdle /\ InlineIdle /\ TypesIdle /\ WrapIdle /\ RenderIdle
    /\ ImagesIdle /\ MeasurerIdle /\ MergeIdle /\ MapperIdle /\ LayoutIdle /\ RunsIdle /\ TableIdle

NextCode == CodeCall \/ CodeWrapLine \/ CodeReturn

SpecCode == InitCode /\ [][NextCode]_vars

-----------------------------------------------------------------------------
(* _render_table as a state machine: one step per row *)

TablesInit ==
    /\ tb_call \in [table : ParsedTables, x : TableOrigins, width : TableWidths,
                     style : {DefaultStyle}]
    /\ tb_col_width = 0 /\ tb_k = 0 /\ tb_cells = <<>>
    /\ tb_pc = "start" /\ tb_result = Used(0)

\* the call: num_cols and col_width
TableCall ==
    /\ tb_pc = "start"
    /\ tb_col_width' = TableColWidth(tb_call.table, tb_call.width)
    /\ tb_pc' = "rows"
    /\ UNCHANGED <<tb_call, tb_k, tb_cells, tb_result, notTable>>

\* the k-th row of the table, the header being row 0
TableRowNo(table, k) == IF k = 0 THEN table.header ELSE table.rows[k]

\* "Render header row", and one iteration of "Render body rows"
TableRenderRow ==
    /\ tb_pc = "rows" /\ tb_k <= Len(tb_call.table.rows)
    /\ tb_cells' = tb_cells \o _render_table_row(TableRowNo(tb_call.table, tb_k), tb_k,
                                                  tb_call.x, tb_col_width,
                                                  tb_call.style.table_cell_padding,
                                                  tb_call.table.alignments)
    /\ tb_k' = tb_k + 1
    /\ UNCHANGED <<tb_call, tb_col_width, tb_pc, tb_result, notTable>>

\* total_height, the border and the separators, and the return
TableReturn ==
    /\ tb_pc = "rows" /\ tb_k > Len(tb_call.table.rows)
    /\ tb_result' = _render_table(tb_call.table, tb_call.style)
    /\ tb_pc' = "done"
    /\ UNCHANGED <<tb_call, tb_col_width, tb_k, tb_cells, notTable>>

InitTables ==
    TablesInit /\ ParserIdle /\ InlineIdle /\ TypesIdle /\ WrapIdle /\ RenderIdle
    /\ ImagesIdle /\ MeasurerIdle /\ MergeIdle /\ MapperIdle /\ LayoutIdle /\ RunsIdle
    /\ CodeIdle

NextTables == TableCall \/ TableRenderRow \/ TableReturn

SpecTables == InitTables /\ [][NextTables]_vars

-----------------------------------------------------------------------------
(* Properties of the parser, checked under Spec *)

\* the line at which the last iteration of _parse_blocks started
LastLine == md_i - md_last.consumed

Iterated == md_last.branch \in {"block", "paragraph"}

\* C1: every iteration of _parse_blocks at a non-blank line advances the line
\* index by at least one, at top level and in the parse of a blockquote's
\* text, so that parse terminates
C1_EveryIterationAdvances ==
    Iterated /\ md_last.status \in {"ok", "hung"}
        => md_last.consumed >= 1 /\ md_last.status = "ok"

\* where an iteration does not advance: at a table row that starts no table
C1_StuckOnlyAtTableRow ==
    Iterated /\ md_last.status = "ok" /\ md_last.consumed = 0
        => TABLE_ROW(md_lines[md_i]) /\ ~_parse_table(md_lines, md_i).table.some

\* the order of the recognizers as the specification lists it
ClaimedOrder ==
    <<"heading", "horizontal_rule", "fenced_code", "indented_code", "blockquote",
      "table", "unordered_list", "ordered_list", "image">>

\* the recognizers that recognize the line of the last iteration
Recognizing ==
    {k \in 1..Len(ClaimedOrder) : Recognize(ClaimedOrder[k], md_lines, LastLine).matched}

\* C3: at a non-blank line the block produced is that of the first recognizer,
\* in the claimed order, that recognizes the line, and a paragraph is produced
\* exactly when none does
C3_FirstRecognizerWins ==
    Iterated =>
        /\ md_last.status = "ok"
        /\ md_blocks # <<>>
        /\ IF Recognizing # {}
           THEN /\ md_last.kind = ClaimedOrder[Min(Recognizing)]
                /\ md_blocks[Len(md_blocks)]
                       = Recognize(ClaimedOrder[Min(Recognizing)], md_lines, LastLine).block
           ELSE /\ md_last.kind = "paragraph"
                /\ md_blocks[Len(md_blocks)].block_type = "paragraph"

\* the same for the iterations that return and advance
C3_FirstRecognizerWinsWhenAdvancing ==
    Iterated /\ md_last.status = "ok" /\ md_last.consumed >= 1 =>
        /\ md_blocks # <<>>
        /\ IF Recognizing # {}
           THEN /\ md_last.kind = ClaimedOrder[Min(Recognizing)]
                /\ md_blocks[Len(md_blocks)]
                       = Recognize(ClaimedOrder[Min(Recognizing)], md_lines, LastLine).block
           ELSE /\ md_last.kind = "paragraph"
                /\ md_blocks[Len(md_blocks)].block_type = "paragraph"

\* the text holds nothing but whitespace and line breaks
WhitespaceOnly(text) == \A k \in 1..Len(text) : text[k] \in {" ", "\t", "\n", "\r"}

\* C5: for an empty or whitespace-only text parse returns the empty document
\* and raises nothing
C5_WhitespaceGivesEmptyDocument ==
    WhitespaceOnly(md_text) => md_blocks = <<>> /\ md_pc \in {"start", "loop", "done"}

C5_Witness ==
    /\ md_pc = "done" /\ md_blocks = <<>>
    /\ Len(md_text) = 3 /\ WhitespaceOnly(md_text)
    /\ \E k \in 1..Len(md_text) : md_text[k] = "\t"
    /\ \E k \in 1..Len(md_text) : md_text[k] = "\n"

\* the spans and the headings of a sequence of blocks, nested ones included
RECURSIVE SpansIn(_)
SpansOfBlock(b) ==
    CASE b.block_type \in {"paragraph", "heading", "list_item"} ->
            {b.spans[k] : k \in 1..Len(b.spans)}
      [] b.block_type = "blockquote" -> SpansIn(b.blocks)
      [] b.block_type \in {"unordered_list", "ordered_list"} -> SpansIn(b.items)
      [] b.block_type = "table" ->
            UNION {{c.spans[k] : k \in 1..Len(c.spans)} :
                      c \in UNION {{r.cells[k] : k \in 1..Len(r.cells)} :
                                      r \in {b.header} \cup {b.rows[k] : k \in 1..Len(b.rows)}}}
      [] OTHER -> {}

SpansIn(blocks) == UNION {SpansOfBlock(blocks[k]) : k \in 1..Len(blocks)}

RECURSIVE HeadingsIn(_)
HeadingsIn(blocks) ==
    UNION {IF blocks[k].block_type = "heading" THEN {blocks[k]}
           ELSE IF blocks[k].block_type = "blockquote" THEN HeadingsIn(blocks[k].blocks)
           ELSE {} : k \in 1..Len(blocks)}

\* C6: every heading the parser constructs has a level in 1..6, every link or
\* image span it constructs has a non-empty URL, and parse raises no
\* validation error
C6_ParserConstructsValidInstances ==
    /\ md_last.status # "ValueError"
    /\ \A h \in HeadingsIn(md_blocks) : h.level \in 1..6
    /\ \A sp \in SpansIn(md_blocks) :
          sp.span_type \in {"link", "image"} => sp.url.some /\ sp.url.val # <<>>

C6_Witness ==
    /\ md_pc = "done"
    /\ \E h \in HeadingsIn(md_blocks) : h.level = 1
    /\ \E sp \in SpansIn(md_blocks) : sp.span_type = "link" /\ sp.url = Some(<<"u">>)

\* the image reference on the line of the last iteration
LastImage == IMAGE_BLOCK(Strip(md_lines[LastLine]))

\* the attributes of its suffix
LastAttrs == IF LastImage.attrs.some THEN IMAGE_ATTR_finditer(LastImage.attrs.val) ELSE <<>>

\* C8: a line that is an image reference with an optional attribute suffix
\* parses, without error, to an ImageBlock with the url, alt and title of the
\* reference and the width and height of the suffix
C8_ImageLineGivesImageBlock ==
    Iterated /\ md_last.kind = "image" =>
        /\ md_last.status = "ok"
        /\ md_blocks # <<>>
        /\ LET b == md_blocks[Len(md_blocks)]
           IN /\ b.block_type = "image"
              /\ b.url = LastImage.url /\ b.alt = LastImage.alt /\ b.title = LastImage.title
              /\ {"width", "height"} \subseteq DOMAIN b
              /\ b.width = AttrValue(LastAttrs, <<"w", "i", "d", "t", "h">>, None)
              /\ b.height = AttrValue(LastAttrs, <<"h", "e", "i", "g", "h", "t">>, None)

-----------------------------------------------------------------------------
(* Properties of _parse_inline, checked under SpecInline *)

\* the priority of the patterns as the specification lists it
ClaimedPriority == <<"code", "image", "link", "bold_italic", "bold", "italic">>

PatternAt(type, s, p) ==
    CASE type = "code" -> INLINE_CODE_At(s, p)
      [] type = "image" -> IMAGE_At(s, p)
      [] type = "link" -> LINK_At(s, p)
      [] type = "bold_italic" -> BOLD_ITALIC_At(s, p)
      [] type = "bold" -> BOLD_At(s, p)
      [] type = "italic" -> ITALIC_At(s, p)

\* the positions of s at which a pattern of the type matches
StartsOf(type, s) == {p \in 1..Len(s) : PatternAt(type, s, p).ok}

AllStarts(s) == UNION {StartsOf(ClaimedPriority[k], s) : k \in 1..Len(ClaimedPriority)}

\* the type of highest priority that matches at p
WinnerAt(s, p) ==
    ClaimedPriority[Min({k \in 1..Len(ClaimedPriority) : p \in StartsOf(ClaimedPriority[k], s)})]

Plain(text) == [text |-> text, span_type |-> "text", url |-> None, title |-> None]

\* C4: each step of _parse_inline emits the earliest match of the remaining
\* text, the pattern of highest priority winning a tie; the text before it
\* becomes one Plain span, the scan resumes right after the match, and
\* unmatched trailing text becomes the final Plain span
C4_EarliestMatchByPriority ==
    /\ in_last.added > 0 =>
        LET r == in_last.before
            n == Len(in_spans)
        IN IF AllStarts(r) = {}
           THEN /\ in_last.added = 1 /\ in_spans[n] = Plain(r) /\ in_pc = "done"
           ELSE LET p == Min(AllStarts(r))
                    type == WinnerAt(r, p)
                    m == PatternAt(type, r, p)
                IN /\ in_last.type = type /\ in_last.pos = p
                   /\ in_spans[n].span_type = type
                   /\ type # "image" => in_spans[n].text = m.g1
                   /\ in_last.added = IF p > 1 THEN 2 ELSE 1
                   /\ p > 1 => in_spans[n - 1] = Plain(SubSeq(r, 1, p - 1))
                   /\ in_remaining = From(r, m.end)
                   /\ in_pc # "raised"
    /\ in_pc = "done" /\ in_text = <<"a", "*", "*", "a", "*", "*", "a">> =>
        in_spans = <<Plain(<<"a">>),
                     [text |-> <<"a">>, span_type |-> "bold", url |-> None, title |-> None],
                     Plain(<<"a">>)>>

C4_Witness ==
    /\ in_pc = "done" /\ Len(in_spans) = 3
    /\ in_spans[1].span_type = "text"
    /\ in_spans[2].span_type = "bold"
    /\ in_spans[3].span_type = "text"

-----------------------------------------------------------------------------
(* Properties of the constructors, checked under SpecTypes *)

UrlMissing(url) == ~url.some \/ url.val = <<>>

\* C7: Heading(level = n) returns iff 1 <= n <= 6 and raises ValueError
\* otherwise; a Span of type link or image raises ValueError iff its URL is
\* None or empty; a Span of any other type is constructed whatever its URL.
C7_ConstructionValidated ==
    /\ ty_call.cls = "Heading" =>
          /\ ty_result.raised = "none" <=> ty_call.level \in 1..6
          /\ ty_result.raised \in {"none", "ValueError"}
          /\ ty_result.obj.level = ty_call.level
    /\ ty_call.cls = "Span" =>
          /\ ty_call.span_type \in {"link", "image"} =>
                (ty_result.raised = "ValueError" <=> UrlMissing(ty_call.url))
          /\ ty_call.span_type \notin {"link", "image"} => ty_result.raised = "none"
          /\ ty_result.raised \in {"none", "ValueError"}
          /\ ty_result.obj.url = ty_call.url

\* a link span constructed with the empty URL was refused
C7_Witness ==
    /\ ty_call.cls = "Span"
    /\ ty_call.span_type = "link"
    /\ ty_call.url = Some(<<>>)
    /\ ty_result.raised = "ValueError"

-----------------------------------------------------------------------------
(* Properties of wrap_text, checked under SpecWrap *)

\* the stepwise run returns what the function returns
WrapStepsAgree == wr_pc = "done" => wr_lines = wrap_text(wr_text, wr_max, wr_mono)

\* C9: every line of the returned list, wrapped again on its own with the
\* same max_width, gives exactly that one line.
C9_RewrapKeepsEveryLine ==
    wr_pc = "done" =>
        \A n \in 1..Len(wr_lines) :
            wrap_text(wr_lines[n], wr_max, wr_mono) = <<wr_lines[n]>>

\* a returned line other than a lone word that was wider than max_width
\* when it started a line after the first is kept by wrapping it again
C9_RewrapKeepsFittingLines ==
    wr_pc = "done" =>
        \A n \in 1..Len(wr_lines) :
            \/ wrap_text(wr_lines[n], wr_max, wr_mono) = <<wr_lines[n]>>
            \/ /\ n > 1
               /\ estimate_text_width(SplitOn(wr_lines[n], " ")[1], wr_mono) > wr_max

WordWidth == estimate_text_width(wr_last.word, wr_mono)

EveryCharFits == \A n \in 1..Len(wr_last.word) :
                    estimate_char_width(wr_last.word[n], wr_mono) <= wr_max

\* C10: a word wider than max_width that the iteration puts at the start of
\* a line (as the first word of the text or after a line break) is broken
\* into chunks, each no wider than max_width when every character fits.
C10_LongWordStartingLineIsBroken ==
    (wr_last.branch \in {"break", "newline"} /\ WordWidth > wr_max) =>
        /\ wr_last.branch = "break"
        /\ EveryCharFits =>
              \A n \in 1..Len(wr_last.placed) :
                  estimate_text_width(wr_last.placed[n], wr_mono) <= wr_max

\* the first word of the text, when wider than max_width, is broken so
\* (current_line is empty only then)
C10_FirstLongWordIsBroken ==
    (wr_last.k = 1 /\ WordWidth > wr_max) =>
        /\ wr_last.branch = "break"
        /\ Concat(wr_last.placed) = wr_last.word
        /\ EveryCharFits =>
              \A n \in 1..Len(wr_last.placed) :
                  estimate_text_width(wr_last.placed[n], wr_mono) <= wr_max

-----------------------------------------------------------------------------
(* Properties of render and measure, checked under SpecRender *)

BothCalled == rn_rendered.called /\ rn_measured.called

\* C2: for every document, width, padding and style, measure returns a Size
\* whose width is the requested width and whose height is exactly the height
\* render stamps on the <svg> element for the same arguments.
C2_MeasureGivesStampedHeight ==
    BothCalled =>
        /\ rn_rendered.raised = "none"
        /\ rn_measured.raised = "none"
        /\ rn_measured.width = rn_width
        /\ rn_measured.height = rn_rendered.height_attr

\* render and measure raise on the same documents, those holding an
\* ImageBlock; otherwise measure returns the requested width and the
\* total_height render computes, which render stamps rounded to two decimals
C2_MeasureGivesTotalHeight ==
    BothCalled =>
        /\ rn_rendered.raised = rn_measured.raised
        /\ rn_rendered.raised = "none" =>
              /\ rn_measured.width = rn_width
              /\ rn_measured.height = rn_rendered.total_height
              /\ rn_rendered.height_attr \in format_number(rn_measured.height)
              /\ rn_rendered.height_attr - rn_measured.height \in (0 - 5000)..5000

-----------------------------------------------------------------------------
(* Properties of wrap_text and of the wrapper of create_precise_wrapper,     *)
(* checked under SpecWrapper                                                  *)

\* the function that produced wr_lines, and the width it measures for a line
ByPrecise == WrapperFor(wr_measurer) = "wrap_precise"

LineWidth(line) ==
    IF ByPrecise THEN TotalAdvance(wr_measurer.val, line)
    ELSE estimate_text_width(line, wr_mono)

\* the stepwise run of wrap_precise returns what the function returns
PreciseStepsAgree ==
    (wr_pc = "done" /\ ByPrecise) =>
        wr_lines = wrap_precise(wr_text, wr_max, wr_measurer.val).lines

\* C11: a returned line that holds two or more words (pieces between single
\* spaces) is no wider than max_width, for wrap_text and for wrap_precise;
\* only a line of one word can be wider.
C11_MultiWordLinesFit ==
    wr_pc = "done" =>
        \A n \in 1..Len(wr_lines) :
            Len(SplitOn(wr_lines[n], " ")) >= 2 => LineWidth(wr_lines[n]) <= wr_max

\* wrap_precise returned a line of two words that fits next to a line of one
\* word that is wider than max_width
C11_Witness ==
    /\ wr_pc = "done" /\ ByPrecise
    /\ \E n \in 1..Len(wr_lines) :
          Len(SplitOn(wr_lines[n], " ")) = 2 /\ LineWidth(wr_lines[n]) <= wr_max
    /\ \E n \in 1..Len(wr_lines) :
          Len(SplitOn(wr_lines[n], " ")) = 1 /\ LineWidth(wr_lines[n]) > wr_max

\* C12: wrap_text and wrap_precise return at least one line for every text
\* and max_width, and exactly [""] for the empty text.
C12_AtLeastOneLine ==
    wr_pc = "done" =>
        /\ Len(wr_lines) >= 1
        /\ wr_text = <<>> => wr_lines = << <<>> >>

\* the empty text went through wrap_precise
C12_Witness ==
    /\ wr_pc = "done" /\ ByPrecise
    /\ wr_text = <<>>
    /\ wr_lines = << <<>> >>

-----------------------------------------------------------------------------
(* Properties of the block recognizers, checked under SpecBlocks             *)

\* the block the last iteration of _parse_blocks produced
LastBlock == md_blocks[Len(md_blocks)]

LastIs(kind) == Iterated /\ md_last.status = "ok" /\ md_last.kind = kind

\* the number written on an item line: the digits after the indent
NumberOn(line) ==
    ToInt(SubSeq(line, RunIn(line, 1, Space) + 1,
                 RunIn(line, 1, Space) + RunIn(line, RunIn(line, 1, Space) + 1, Digit)))

\* the lines of the last block that are item lines at the indent of the first
ItemLinesOfLast ==
    {i \in LastLine..(md_i - 1) :
        /\ ORDERED_LIST_ITEM(md_lines[i]).ok
        /\ Len(ORDERED_LIST_ITEM(md_lines[i]).g1) = Len(ORDERED_LIST_ITEM(md_lines[LastLine]).g1)}

\* C13: the start of an OrderedList is the number on its first item line,
\* whatever the numbers on the later item lines, and the label rendered for
\* the k-th item (k from 0) is the decimal numeral of start + k followed by a
\* full stop.
C13_StartFromFirstItemLine ==
    LastIs("ordered_list") =>
        /\ LastBlock.start = NumberOn(md_lines[LastLine])
        /\ \A k \in 0..(Len(LastBlock.items) - 1) :
              LET label == number_text(LastBlock, k) IN
                /\ label[Len(label)] = "."
                /\ \A j \in 1..(Len(label) - 1) : label[j] \in Digit
                /\ Len(label) > 2 => label[1] # "0"
                /\ ToInt(SubSeq(label, 1, Len(label) - 1)) = NumberOn(md_lines[LastLine]) + k

\* an ordered list of three items whose later lines carry numbers that do not
\* continue the first, the labels passing from one digit to two
C13_Witness ==
    /\ LastIs("ordered_list")
    /\ Len(LastBlock.items) = 3
    /\ LastBlock.start = 9
    /\ number_text(LastBlock, 2) = <<"1", "1", ".">>
    /\ \E i \in ItemLinesOfLast : i > LastLine /\ NumberOn(md_lines[i]) = 2

\* the cells of a separator row: what stands between its pipes, the outer
\* pipes removed
SeparatorCells(line) == SplitOn(StripChars(Strip(line), {"|"}), "|")

StartsWithColon(cell) == cell # <<>> /\ cell[1] = ":"
EndsWithColon(cell) == cell # <<>> /\ cell[Len(cell)] = ":"

ClaimedAlignment(cell) ==
    CASE StartsWithColon(cell) /\ EndsWithColon(cell) -> Some("center")
      [] ~StartsWithColon(cell) /\ EndsWithColon(cell) -> Some("right")
      [] StartsWithColon(cell) /\ ~EndsWithColon(cell) -> Some("left")
      [] OTHER -> None

\* the cells of a row carry the alignment of their column
CellsAligned(row, alignments, is_header) ==
    \A i \in 1..Len(row.cells) :
        /\ row.cells[i].is_header = is_header
        /\ row.cells[i].align = IF i <= Len(alignments) THEN alignments[i] ELSE None

\* a row line followed by a separator row
AtTableStart ==
    /\ Iterated
    /\ TABLE_ROW(md_lines[LastLine])
    /\ LastLine + 1 <= Len(md_lines)
    /\ TABLE_SEPARATOR(md_lines[LastLine + 1])

\* C14: a row line followed by a separator row gives one Table: alignments
\* has one entry per separator cell, read from the colons at the ends of the
\* cell; every header and body cell carries the alignment of its column, none
\* past the last separator cell; the body rows are the lines after the
\* separator up to the first line that is no row.
C14_TableFromSeparator ==
    AtTableStart =>
        /\ LastIs("table")
        /\ LET cells == SeparatorCells(md_lines[LastLine + 1]) IN
              /\ Len(LastBlock.alignments) = Len(cells)
              /\ \A k \in 1..Len(cells) :
                    LastBlock.alignments[k] = ClaimedAlignment(Strip(cells[k]))
        /\ CellsAligned(LastBlock.header, LastBlock.alignments, TRUE)
        /\ \A r \in 1..Len(LastBlock.rows) :
              CellsAligned(LastBlock.rows[r], LastBlock.alignments, FALSE)
        /\ md_last.consumed = 2 + Len(LastBlock.rows)
        /\ \A k \in (LastLine + 2)..(md_i - 1) : TABLE_ROW(md_lines[k])
        /\ md_i <= Len(md_lines) => ~TABLE_ROW(md_lines[md_i])

\* a table with the three alignments, a header of two cells under three
\* separator cells, one body row, and a line after it that is no row
C14_Witness ==
    /\ AtTableStart /\ LastIs("table")
    /\ LastBlock.alignments = <<Some("center"), None, Some("center")>>
    /\ Len(LastBlock.header.cells) = 2
    /\ Len(LastBlock.rows) = 1
    /\ md_i <= Len(md_lines)

\* a table whose rows have more cells than the separator row
C14_WitnessPastSeparator ==
    /\ AtTableStart /\ LastIs("table")
    /\ LastBlock.alignments = <<Some("left"), Some("right")>>
    /\ \E r \in 1..Len(LastBlock.rows) :
          /\ Len(LastBlock.rows[r].cells) = 3
          /\ LastBlock.rows[r].cells[3].align = None

RuleChars == {"-", "*", "_"}

\* a line of three or more rule characters, spaces allowed after each
SpacedRuleLine(line) ==
    /\ line # <<>> /\ line[1] \in RuleChars
    /\ \A k \in 1..Len(line) : line[k] \in RuleChars \cup {" "}
    /\ Cardinality({k \in 1..Len(line) : line[k] \in RuleChars}) >= 3

\* no space stands between two rule characters of the line
Unspaced(line) ==
    \A k \in 1..Len(line) : line[k] = " " => \A j \in k..Len(line) : line[j] = " "

\* C15: a line of three or more '-', '*' or '_' gives a HorizontalRule, also
\* when spaces separate the characters.
C15_SpacedRuleLineGivesHorizontalRule ==
    Iterated /\ SpacedRuleLine(md_lines[LastLine]) => LastIs("horizontal_rule")

\* without spaces between the characters the line gives a HorizontalRule
C15_UnspacedRuleLineGivesHorizontalRule ==
    Iterated /\ SpacedRuleLine(md_lines[LastLine]) /\ Unspaced(md_lines[LastLine])
        => LastIs("horizontal_rule") /\ LastBlock = HorizontalRule

\* what the spaced lines give: a list of one item for '-' and '*', a
\* paragraph for '_'
C15_SpacedRuleLineGivesListOrParagraph ==
    Iterated /\ SpacedRuleLine(md_lines[LastLine]) /\ ~Unspaced(md_lines[LastLine])
        => IF md_lines[LastLine][1] = "_" THEN LastIs("paragraph")
           ELSE LastIs("unordered_list")

\* the text is some text with "> " put before each line, and that text
IsQuoted(text) == \A k \in 1..Len(split_lines(text)) : HasAt(split_lines(text)[k], 1, <<">", " ">>)

Unquoted(text) ==
    Join([k \in 1..Len(split_lines(text)) |-> From(split_lines(text)[k], 3)], <<"\n">>)

Returned == md_pc \in {"done", "raised", "hung"}

\* C16: when parse returns on a text T, parse on T with "> " before each of
\* its lines returns exactly one Blockquote whose blocks are parse(T).
C16_QuotedTextGivesOneBlockquote ==
    Returned /\ IsQuoted(md_text) /\ parse(Unquoted(md_text)).status = "ok" =>
        /\ md_pc = "done"
        /\ md_blocks = <<Blockquote(parse(Unquoted(md_text)).blocks)>>

\* a text of two blocks, one of them a quote, quoted twice: three levels
\* of Blockquote
C16_Witness ==
    /\ md_pc = "done" /\ IsQuoted(md_text) /\ IsQuoted(Unquoted(md_text))
    /\ Len(parse(Unquoted(Unquoted(md_text))).blocks) = 2
    /\ md_blocks = <<Blockquote(<<Blockquote(parse(Unquoted(Unquoted(md_text))).blocks)>>)>>
    /\ \E k \in 1..2 :
          parse(Unquoted(Unquoted(md_text))).blocks[k].block_type = "blockquote"

\* where parse does not return on T it does not return on the quoted T
C16_QuotedTextFailsAlike ==
    Returned /\ IsQuoted(md_text) /\ parse(Unquoted(md_text)).status # "ok" =>
        md_last.status = parse(Unquoted(md_text)).status

-----------------------------------------------------------------------------
(* Properties of the image sizing and of the image size cache, checked      *)
(* under SpecImages                                                          *)

\* the last call of _render_image_block was given an object that carries
\* width and height, fewer than two of them set, and had the actual size of
\* the image
ActualKnown ==
    /\ im_last.renderer # 0
    /\ im_last.actual.some
    /\ {"width", "height"} \subseteq DOMAIN im_last.img
    /\ ~(im_last.img.width.some /\ im_last.img.height.some)

\* the size has the proportions of the actual image
KeepsActualRatio ==
    im_last.sized.img_height
        = (im_last.sized.img_width \div im_last.actual.val.width) * im_last.actual.val.height

\* C17: when the actual size of the image is known and at most one explicit
\* dimension is given, _render_image_block returns a size with the actual
\* proportions: the actual size comes before the style defaults, and a
\* single explicit dimension scales the other one.  Stated for the objects
\* on which _render_image_block returns.
C17_ActualSizeBeforeStyleDefaults ==
    ActualKnown => im_last.sized.raised = "none" /\ KeepsActualRatio

\* what the code does with the actual size: only an explicit width, or no
\* explicit dimension and no style height, gives the actual proportions
C17_ActualSizeAfterStyleHeight ==
    ActualKnown /\ im_last.sized.raised = "none" =>
        LET style == im_config[im_last.renderer].style IN
          /\ im_last.img.height.some =>
                /\ im_last.sized.img_height = im_last.img.height.val
                /\ im_last.sized.img_width
                      = IF style.image_width.some
                        THEN Min({ImageContainerWidth, style.image_width.val})
                        ELSE ImageContainerWidth
          /\ im_last.img.width.some =>
                /\ im_last.sized.img_width = Min({ImageContainerWidth, im_last.img.width.val})
                /\ KeepsActualRatio
          /\ ~im_last.img.width.some /\ ~im_last.img.height.some =>
                IF style.image_height.some
                THEN im_last.sized.img_height = style.image_height.val
                ELSE KeepsActualRatio

\* an ImageBlock makes _render_image_block raise, the size known or not
C17_ImageBlockRaises ==
    im_last.renderer # 0 /\ ~({"width", "height"} \subseteq DOMAIN im_last.img) =>
        im_last.sized.raised # "none"

Lookups_of(r, u) == im_lookups[r][u].returned + im_lookups[r][u].raised

\* C18: on one renderer get_image_size is called at most once for each URL,
\* whatever the sequence of calls that ask for the size.
C18_AtMostOneLookupPerUrl ==
    \A r \in DOMAIN im_lookups : \A u \in ImageUrls : Lookups_of(r, u) <= 1

\* a call of get_image_size that returns is the only one for its URL on its
\* renderer: its result, None included, is in the cache from then on
C18_AtMostOneReturnedLookupPerUrl ==
    \A r \in DOMAIN im_lookups : \A u \in ImageUrls :
        /\ im_lookups[r][u].returned <= 1
        /\ im_cache[r][u].some <=> im_lookups[r][u].returned = 1

\* a size taken from the cache is the stored one, and a stored result is
\* never changed or removed
C18_CacheNeverInvalidated ==
    [][/\ \A r \in DOMAIN im_cache : \A u \in ImageUrls :
             im_cache[r][u].some => im_cache'[r][u] = im_cache[r][u]
       /\ im_last'.from = "cache" =>
             im_last'.actual = im_cache[im_last'.renderer][im_last'.img.url].val]_vars

\* a call on one renderer leaves the cache of the other as it was, and calls
\* get_image_size whatever the other has stored
C18_CachePerInstance ==
    [][\A r \in DOMAIN im_cache : im_last'.renderer # r => im_cache'[r] = im_cache[r]]_vars

\* both renderers looked the same URL up, the second after the first had
\* stored its result
C18_LookedUpOnBoth ==
    \E u \in ImageUrls :
        /\ \A r \in DOMAIN im_lookups : im_lookups[r][u].returned = 1
        /\ im_cache[1][u] # im_cache[2][u]

-----------------------------------------------------------------------------
(* Properties of the renderer's measurers, checked under SpecMeasurer        *)

\* the font capability for the body text, resp. for monospace text, is
\* unavailable to the renderer
NoBodyFont ==
    \/ ~ms_args.use_precise_measurement
    \/ Truthy(ms_args.font_path) /\ ~FontMeasurer(ms_args.font_path.val).available
    \/ ~Truthy(ms_args.font_path) /\ ~ms_args.default.some

NoMonoFont ==
    \/ ~ms_args.use_precise_measurement
    \/ ~Truthy(ms_args.mono_font_path)
    \/ ~FontMeasurer(ms_args.mono_font_path.val).available

\* C19: a constructed renderer holds no unavailable measurer;
\* FontMeasurer.measure is never called on an unavailable measurer;
\* _measure_text raises nothing, and gives the heuristic estimate when the
\* font for the kind of text is unavailable.
C19_MeasurementFailsSoft ==
    ms_pc = "ready" =>
        /\ ms_self.measurer.some => ms_self.measurer.val.available
        /\ ms_self.mono_measurer.some => ms_self.mono_measurer.val.available
        /\ NoBodyFont => ~ms_self.measurer.some
        /\ NoMonoFont => ~ms_self.mono_measurer.some /\ ~ms_self.mono_char_width.some
        /\ \A c \in ms_calls : c.available
        /\ ms_last.raised = "none"
        /\ ms_last.called /\ (IF ms_last.is_mono THEN NoMonoFont ELSE NoBodyFont) =>
              ms_last.width = _measure_text(ms_last.text, Px(14), ms_last.is_bold,
                                            ms_last.is_italic, ms_last.is_mono, DefaultStyle)

\* a renderer given font files that do not load measured a text of each kind
C19_Witness ==
    /\ ms_pc = "ready" /\ ms_count = 2
    /\ ms_args.use_precise_measurement
    /\ ms_args.font_path = Some("missing.ttf")
    /\ ms_args.mono_font_path = Some("missing.ttf")
    /\ ms_last.called /\ ms_last.text # <<>> /\ ms_last.width > 0
    /\ ms_calls = {}

\* with the fonts loaded the measurers are used
C19_WitnessFonts ==
    /\ ms_pc = "ready"
    /\ ms_last.called /\ ms_last.branch = "font"
    /\ \E c \in ms_calls : c.text = <<"M">>
    /\ \E c \in ms_calls : c.text = <<"m", "i">>

-----------------------------------------------------------------------------
(* Properties of merge_styles, checked under SpecStyles                      *)

\* the styles of the call whose field differs from the default
DifferingAt(field_name) ==
    {i \in 1..Len(mg_styles) : mg_styles[i][field_name] # StyleDefault[field_name]}

Latest(indices) == CHOOSE i \in indices : \A j \in indices : j <= i

\* the value the last style differing from the default has, or the default
LastDiffering(field_name) ==
    IF DifferingAt(field_name) = {} THEN StyleDefault[field_name]
    ELSE mg_styles[Latest(DifferingAt(field_name))][field_name]

Swapped == <<mg_styles[2], mg_styles[1]>>

\* C20: every field of merge_styles(s1, ..., sn) is that of the last si
\* differing from the default there, the default if none differs; so
\* merge_styles(s) = s, and with disjoint non-default fields two styles merge
\* to the same Style in either order, which keeps the non-default fields of
\* both.
C20_LastNonDefaultWins ==
    mg_pc = "done" =>
        /\ mg_result.some
        /\ DOMAIN mg_result.val = DOMAIN StyleDefault
        /\ \A field_name \in DOMAIN StyleDefault :
              mg_result.val[field_name] = LastDiffering(field_name)
        /\ Len(mg_styles) = 1 => mg_result.val = mg_styles[1]
        /\ Len(mg_styles) = 2 /\ Differing(mg_styles[1]) \cap Differing(mg_styles[2]) = {} =>
              /\ mg_result.val = merge_styles(Swapped)
              /\ \A k \in 1..2 : \A field_name \in Differing(mg_styles[k]) :
                    mg_result.val[field_name] = mg_styles[k][field_name]

\* a spacing preset merged with a colour theme
C20_Witness ==
    /\ mg_pc = "done"
    /\ mg_styles = <<COMPACT_PRESET, DARK_THEME>>
    /\ mg_result.val.paragraph_spacing = Px(8)
    /\ mg_result.val.text_color = "#e5e7eb"

\* a later style with the default in a field does not reset the field
C20_WitnessDefaultAfter ==
    /\ mg_pc = "done"
    /\ mg_styles = <<MINIMAL_PRESET, COMPACT_PRESET, DOCUMENT_PRESET>>
    /\ mg_result.val = COMPACT_PRESET

-----------------------------------------------------------------------------
(* Properties of the image URL mappers, checked under SpecMappers            *)

\* an absolute URL: a scheme (a letter, then letters, digits, "+", "-", ".")
\* before the first colon, or "//" at the start; and a data: URI
AbsoluteUrl(url) ==
    \/ StartsWith(url, <<"/", "/">>)
    \/ /\ Find(url, {":"}) > 1
       /\ url[1] \in AsciiLetters
       /\ \A k \in 1..(Find(url, {":"}) - 1) : url[k] \in SchemeChars

DataUri(url) == StartsWith(url, <<"d", "a", "t", "a", ":">>)

MappedBy(kind) == mp_last.called /\ mp_mapper.some /\ mp_mapper.val.kind = kind

\* C21: a mapper made by create_prefix_mapper or create_base_url_mapper
\* returns every absolute URL and every data: URI unchanged.
C21_AbsoluteUrlsUnchanged ==
    mp_last.called /\ mp_mapper.some /\ (AbsoluteUrl(mp_last.url) \/ DataUri(mp_last.url)) =>
        mp_last.raised = "none" /\ mp_last.result = mp_last.url

\* C21, the base URL mapper alone: what it returns for an absolute URL or a
\* data: URI is the URL, and it rewrites every other reference.
C21_BaseMapperReturnsAbsoluteUnchanged ==
    MappedBy("base") /\ mp_last.raised = "none" =>
        IF AbsoluteUrl(mp_last.url) \/ DataUri(mp_last.url)
        THEN mp_last.result = mp_last.url
        ELSE mp_last.result = rstrip(mp_mapper.val.base_url, {"/"}) \o <<"/">>
                              \o lstrip(mp_last.url, {"/"})

\* C21, the prefix mapper rewriting an absolute URL
C21_PrefixMapperRewroteAbsolute ==
    /\ MappedBy("prefix")
    /\ mp_mapper.val.prefix_map = <<[source |-> <<"/">>, target |-> <<"h", ":", "/", "/", "c", "/">>]>>
    /\ mp_last.url = <<"/", "/", "o", "/", "a">>
    /\ mp_last.result = <<"h", ":", "/", "/", "c", "/", "/", "o", "/", "a">>

\* C21, the base URL mapper raising on an absolute URL
C21_BaseMapperRaised ==
    MappedBy("base") /\ mp_last.url = <<"/", "/", "[">> /\ mp_last.raised = "ValueError"

-----------------------------------------------------------------------------
(* Properties of the top-level layout, checked under SpecLayout              *)

\* the heights the first n handled blocks returned, each with one spacing
RECURSIVE HeightsWithSpacing(_)
HeightsWithSpacing(n) ==
    IF n = 0 THEN 0
    ELSE HeightsWithSpacing(n - 1) + ly_placed[n].height + ly_call.style.paragraph_spacing

\* C22: block i is laid out at y = padding + the heights and spacings of the
\* blocks before it, with width - 2*padding available; the total height is
\* 2*padding + the heights + (n-1) spacings for n >= 1 blocks, and 2*padding
\* for the empty document.
C22_LayoutCursor ==
    /\ ly_pc \in {"loop", "done", "raised"} =>
          \A i \in 1..Len(ly_placed) :
              /\ ly_placed[i].y = ly_call.padding + HeightsWithSpacing(i - 1)
              /\ ly_placed[i].x = ly_call.padding
              /\ ly_placed[i].width = ly_call.width - 2 * ly_call.padding
    /\ ly_pc = "done" =>
          /\ Len(ly_placed) = Len(ly_call.blocks)
          /\ ly_total = IF ly_call.blocks = <<>> THEN 2 * ly_call.padding
                        ELSE 2 * ly_call.padding + HeightsWithSpacing(Len(ly_placed))
                             - ly_call.style.paragraph_spacing

\* three blocks with padding laid out, the third below the first two
C22_Witness ==
    /\ ly_pc = "done"
    /\ Len(ly_placed) = 3
    /\ ly_call.padding > 0
    /\ ly_placed[3].y > ly_placed[2].y /\ ly_placed[2].y > ly_placed[1].y
    /\ ly_placed[1].height # ly_placed[2].height

\* the empty document with padding
C22_WitnessEmpty ==
    ly_pc = "done" /\ ly_call.blocks = <<>> /\ ly_total = Px(40)

-----------------------------------------------------------------------------
(* Properties of _wrap_runs, checked under SpecRuns                          *)

RunWidth(run) ==
    _measure_text(run.text, DefaultStyle.base_font_size, run.is_bold, run.is_italic,
                  run.is_code, DefaultStyle)

\* the summed width of the runs of a line, resp. of all spans
RECURSIVE RunsWidth(_)
RunsWidth(runs) == IF runs = <<>> THEN 0 ELSE RunWidth(Head(runs)) + RunsWidth(Tail(runs))

RunsText(runs) == Concat([n \in 1..Len(runs) |-> runs[n].text])

HasSpace(text) == \E n \in 1..Len(text) : text[n] = " "

\* the step broke the line
BrokeLine == Len(rw_ws.lines) = rw_last.lines_before + 1

\* C23: a line is broken exactly when the word does not fit and the line is
\* not empty; every line holds a run; a line of more than one word fits the
\* width; a word wider than the width is placed alone at the start of a
\* line; a text of two words or more wider than the width gives two lines or
\* more.
C23_BreakWhenWordDoesNotFit ==
    /\ rw_last.stepped =>
          /\ Len(rw_ws.lines) \in {rw_last.lines_before, rw_last.lines_before + 1}
          /\ BrokeLine <=> /\ rw_last.width_before + rw_last.word_width > rw_max
                           /\ rw_last.line_before # <<>>
    /\ rw_pc \in {"loop", "done"} /\ rw_last.stepped /\ rw_last.clean_width > rw_max =>
          /\ Len(rw_ws.lines[Len(rw_ws.lines)]) = 1
          /\ rw_ws.lines[Len(rw_ws.lines)][1].text = LStripSpaces(rw_last.word)
    /\ rw_pc = "done" =>
          /\ \A n \in 1..Len(rw_ws.lines) :
                /\ rw_ws.lines[n] # <<>>
                /\ HasSpace(RunsText(rw_ws.lines[n])) => RunsWidth(rw_ws.lines[n]) <= rw_max
          /\ /\ RunsWidth(_build_text_runs(rw_spans)) > rw_max
             /\ HasSpace(RunsText(_build_text_runs(rw_spans)))
             => Len(rw_ws.lines) > 1

\* a text of three words wider than the width gave lines, one of them of two
\* words
C23_Witness ==
    /\ rw_pc = "done"
    /\ rw_spans = <<TextOf(<<"a", "a", " ", "m", "m">>), TextOf(<<"a">>)>>
    /\ rw_max = Px(50)
    /\ RunsWidth(_build_text_runs(rw_spans)) > rw_max
    /\ Len(rw_ws.lines) = 2
    /\ RunsText(rw_ws.lines[1]) = <<"a", "a", " ", "m", "m">>
    /\ RunsText(rw_ws.lines[2]) = <<"a">>

\* a word wider than the width was placed after a line was begun
C23_WitnessWideWord ==
    /\ rw_last.stepped /\ rw_last.clean_width > rw_max /\ rw_last.line_before # <<>>
    /\ BrokeLine

\* the texts of the lines, a space put back at each break
LinesText == Join([n \in 1..Len(rw_ws.lines) |-> RunsText(rw_ws.lines[n])], <<" ">>)

Unspaced_(text) == SelectSeq(text, LAMBDA c : c # " ")

\* C29: the run texts of the lines read in order, with the space of each
\* break put back, are the concatenation of the span texts.
C29_TextOfSpansPreserved ==
    rw_pc = "done" => LinesText = RunsText(_build_text_runs(rw_spans))

\* C29, without the spaces: the other characters are kept, in order
C29_CharactersPreserved ==
    rw_pc = "done" => Unspaced_(LinesText) = Unspaced_(RunsText(_build_text_runs(rw_spans)))

\* C29: Bold("aa") then Plain(".") on one line, a space put between them
C29_SpaceInserted ==
    /\ rw_pc = "done"
    /\ rw_spans = <<Span(<<"a", "a">>, "bold", None, None).obj, TextOf(<<".">>)>>
    /\ Len(rw_ws.lines) = 1
    /\ LinesText = <<"a", "a", " ", ".">>

-----------------------------------------------------------------------------
(* Properties of paragraph accumulation, checked under SpecParagraphs *)

\* the last iteration of _parse_blocks accumulated a paragraph
ParagraphTaken == md_last.branch = "paragraph" /\ md_last.consumed >= 1

\* line k would itself start a block: _try_parse_block returns (or raises in
\* building) a block there
OwnBlock(k) == _try_parse_block(md_lines, k).matched

OwnBlockKind(k) == _try_parse_block(md_lines, k).kind

\* the lines accumulated into the paragraph after its first
Folded == (LastLine + 1)..(md_i - 1)

\* C24: paragraph accumulation stops before every blank line and before every
\* line that would itself start another block type (heading, horizontal rule,
\* fenced code, indented code, blockquote, table, list item, standalone
\* image): no such line is folded into the paragraph
C24_ParagraphStopsBeforeBlocks ==
    ParagraphTaken => \A k \in Folded : ~IsBlank(md_lines[k]) /\ ~OwnBlock(k)

\* what the loop does stop before: blank lines and the lines that start a
\* block other than an indented code block or an image block
C24_ParagraphStopsBeforeTestedBlocks ==
    ParagraphTaken =>
        \A k \in Folded :
            /\ ~IsBlank(md_lines[k])
            /\ OwnBlock(k) => OwnBlockKind(k) \in {"indented_code", "image"}

\* a line that is exactly an image reference is folded into the paragraph as
\* an inline image span
C24_ImageLineFolded ==
    /\ ParagraphTaken /\ md_last.status = "ok"
    /\ \E k \in Folded : OwnBlockKind(k) = "image"
    /\ \E j \in 1..Len(md_blocks[Len(md_blocks)].spans) :
           md_blocks[Len(md_blocks)].spans[j].span_type = "image"

\* an indented line is folded into the paragraph
C24_IndentedLineFolded ==
    /\ ParagraphTaken /\ md_last.status = "ok"
    /\ \E k \in Folded : OwnBlockKind(k) = "indented_code"

-----------------------------------------------------------------------------
(* Properties of blockquotes, checked under SpecQuotes *)

\* the last iteration of _parse_blocks returned a blockquote
QuoteTaken ==
    md_last.branch = "block" /\ md_last.kind = "blockquote" /\ md_last.status = "ok"

QuoteLineAt(k) == k <= Len(md_lines) /\ BLOCKQUOTE(md_lines[k]).ok

BlankAt(k) == k <= Len(md_lines) /\ IsBlank(md_lines[k])

\* the first line from k on that is not blank (Len(md_lines) + 1 if none)
BlankRunEnd(k) == Min({j \in k..(Len(md_lines) + 1) : ~BlankAt(j)})

\* the text of the quote that ends before line i: its quoted lines without
\* the marker, its blank lines empty
QuoteText(first, i) ==
    Join([k \in 1..(i - first) |->
             IF QuoteLineAt(first + k - 1) THEN BLOCKQUOTE(md_lines[first + k - 1]).g1
             ELSE <<>>],
         <<"\n">>)

\* the quote holds the blocks of its text, and ends with a quoted line
QuoteHoldsItsText ==
    /\ md_blocks[Len(md_blocks)] = Blockquote(parse(QuoteText(LastLine, md_i)).blocks)
    /\ QuoteLineAt(md_i - 1)
    /\ ~QuoteLineAt(md_i)

\* C25: inside a blockquote a run of one or more contiguous blank lines is
\* included in the quote, as empty lines, whenever a '>' line follows the run,
\* and terminates the quote otherwise
C25_BlankRunsBeforeQuoteLineIncluded ==
    QuoteTaken => QuoteHoldsItsText /\ ~(BlankAt(md_i) /\ QuoteLineAt(BlankRunEnd(md_i)))

\* what the loop does: a blank line is included when the line right after it
\* is a '>' line, and terminates the quote otherwise
C25_BlankLineBeforeQuoteLineIncluded ==
    QuoteTaken => QuoteHoldsItsText /\ ~(BlankAt(md_i) /\ QuoteLineAt(md_i + 1))

\* '> a', two blank lines, '> b' parses to two Blockquotes
C25_TwoBlankLinesSplitQuote ==
    /\ md_pc = "done"
    /\ md_lines = <<<<">", " ", "a">>, <<>>, <<>>, <<">", "b">>>>
    /\ Len(md_blocks) = 2
    /\ \A k \in 1..2 : md_blocks[k].block_type = "blockquote"

\* '> a', one blank line, '> b' parses to one Blockquote of two paragraphs
C25_OneBlankLineKept ==
    /\ QuoteTaken
    /\ md_lines = <<<<">", " ", "a">>, <<>>, <<">", "b">>>>
    /\ md_last.consumed = 3
    /\ Len(md_blocks) = 1 /\ Len(md_blocks[1].blocks) = 2

-----------------------------------------------------------------------------
(* Properties of lists, checked under SpecLists *)

\* the last iteration of _parse_blocks returned a list
ListTaken ==
    /\ md_last.branch = "block" /\ md_last.status = "ok"
    /\ md_last.kind \in {"unordered_list", "ordered_list"}

\* the item pattern of the list returned
ItemPattern(line) ==
    IF md_last.kind = "unordered_list" THEN UNORDERED_LIST_ITEM(line)
    ELSE ORDERED_LIST_ITEM(line)

\* the lines the list consumed
TakenLines == [k \in 1..md_last.consumed |-> md_lines[LastLine + k - 1]]

IsItemLine(line) == ItemPattern(line).ok

\* the indent of the first item of the list
BaseIndent == Len(ItemPattern(md_lines[LastLine]).g1)

IsBaseItemLine(line) == IsItemLine(line) /\ Len(ItemPattern(line).g1) = BaseIndent

IsDeeperItemLine(line) == IsItemLine(line) /\ Len(ItemPattern(line).g1) > BaseIndent

\* the items that keep the text of the lines ls, in order
ItemsOf(ls) == [k \in 1..Len(ls) |-> ListItem(ItemSpans(ItemPattern(ls[k]).g2).spans)]

ListTakenItems == md_blocks[Len(md_blocks)].items

NeverNested == \A k \in 1..Len(ListTakenItems) : ListTakenItems[k].nested_list = None

\* C26: list parsing flattens nesting: the item lines indented deeper than
\* the base indent are absorbed into the same flat list, their text kept in
\* the items of that list, and nested_list is None in every item
C26_DeeperItemsKeptInFlatList ==
    ListTaken => NeverNested /\ ListTakenItems = ItemsOf(SelectSeq(TakenLines, IsItemLine))

\* what the loops do: the items are those of the lines at the base indent;
\* the deeper item lines are consumed with the list and give no item
C26_BaseItemsKeptInFlatList ==
    ListTaken =>
        /\ NeverNested
        /\ ListTakenItems = ItemsOf(SelectSeq(TakenLines, IsBaseItemLine))
        /\ \A k \in 1..Len(TakenLines) :
               IsItemLine(TakenLines[k]) => Len(ItemPattern(TakenLines[k]).g1) >= BaseIndent

\* '- a' and a deeper '  - b' give a list whose only item is 'a'
C26_DeeperItemDropped ==
    /\ ListTaken
    /\ md_lines = <<<<"-", " ", "a">>, <<" ", " ", "-", " ", "b">>>>
    /\ md_last.consumed = 2
    /\ Len(ListTakenItems) = 1

\* a list that consumed a deeper item line
C26_DeeperItemConsumed ==
    ListTaken /\ NeverNested /\ \E k \in 1..Len(TakenLines) : IsDeeperItemLine(TakenLines[k])

-----------------------------------------------------------------------------
(* Properties of wrapped code blocks, checked under SpecCode *)

\* the texts of the visual lines cut from source line k, in order
VisualOf(k) ==
    LET own == SelectSeq(cw_wrapped, LAMBDA v : v.source = k)
    IN [j \in 1..Len(own) |-> own[j].text]

CodeFontSize == Hundredths(cw_call.style.base_font_size, 90)
CodeCharWidth == Hundredths(CodeFontSize, cw_call.style.mono_char_width_ratio)
CodeInnerWidth == cw_call.width - 2 * cw_call.style.code_block_padding

\* max_chars is the number of whole characters the inner width holds, and
\* ten when it holds fewer
BudgetOfWidth ==
    /\ cw_max_chars >= 10
    /\ cw_max_chars * CodeCharWidth <= CodeInnerWidth \/ cw_max_chars = 10
    /\ (cw_max_chars + 1) * CodeCharWidth > CodeInnerWidth

\* C27: under the overflow policy "wrap" every visual line of a code block
\* has at most max_chars characters, max_chars being the character budget of
\* the available width; the visual lines cut from one source line
\* concatenate back to that source line; an empty source line stays one
\* empty visual line; and the height of the block is 2 * code_block_padding
\* + the number of visual lines * the line height
C27_WrappedCodeBlock ==
    cw_pc \in {"loop", "done"} =>
        /\ cw_call.style.code_block_overflow = "wrap"
        /\ BudgetOfWidth
        /\ Join(cw_lines, <<"\n">>) = cw_call.code.code
        /\ \A j \in 1..Len(cw_wrapped) : Len(cw_wrapped[j].text) <= cw_max_chars
        /\ \A k \in 1..(cw_k - 1) :
               /\ Concat(VisualOf(k)) = cw_lines[k]
               /\ cw_lines[k] = <<>> => VisualOf(k) = <<<<>>>>
        /\ cw_pc = "done" =>
               /\ cw_result.raised = "none"
               /\ cw_result.height = 2 * cw_call.style.code_block_padding
                                         + Len(cw_wrapped) * Hundredths(CodeFontSize, 140)
               /\ cw_result = _render_code_block(cw_call.code, cw_call.width, cw_call.style)

\* a block returned with a source line cut into three visual lines or more
\* and an empty source line
C27_Witness ==
    /\ cw_pc = "done"
    /\ \E k \in 1..Len(cw_lines) : Len(VisualOf(k)) >= 3
    /\ \E k \in 1..Len(cw_lines) : cw_lines[k] = <<>>

\* a block whose width holds more than ten characters, with a line cut there
C27_WitnessWide ==
    /\ cw_pc = "done"
    /\ cw_max_chars = 11
    /\ \E k \in 1..Len(cw_lines) : Len(VisualOf(k)) = 3

-----------------------------------------------------------------------------
(* Properties of image_enforce_aspect_ratio, checked under SpecImages *)

EnforcedOn(r) == im_config[r].style.image_enforce_aspect_ratio

\* the last call of _render_image_block was on a renderer whose style has
\* image_enforce_aspect_ratio
Enforced == im_last.renderer # 0 /\ EnforcedOn(im_last.renderer)

\* on the renderers that enforce the ratio get_image_size was never called
\* and nothing is cached
NeverFetched ==
    \A r \in DOMAIN im_config :
        EnforcedOn(r) => \A u \in ImageUrls : Lookups_of(r, u) = 0 /\ ~im_cache[r][u].some

\* the height is the width divided by image_fallback_aspect_ratio
FallbackRatioUsed ==
    im_last.sized
        = Over(im_last.sized.img_width,
               im_config[im_last.renderer].style.image_fallback_aspect_ratio)

\* C28: when style.image_enforce_aspect_ratio is true no image-dimension
\* fetch is ever performed, and the height of every image block is its
\* resolved width divided by image_fallback_aspect_ratio
C28_EnforcedAlwaysFallbackRatio ==
    NeverFetched /\ (Enforced => im_last.sized.raised = "none" /\ FallbackRatioUsed)

\* what the code does: no fetch and no actual size; the fallback ratio gives
\* the height when _render_image_block returns and neither the image nor the
\* style has a height
C28_EnforcedNeverFetches ==
    /\ NeverFetched
    /\ Enforced =>
          /\ im_last.from = "none" /\ ~im_last.actual.some
          /\ (/\ im_last.sized.raised = "none"
              /\ ~im_last.img.height.some
              /\ ~im_config[im_last.renderer].style.image_height.some) => FallbackRatioUsed

\* an ImageBlock on an enforcing renderer: _render_image_block raises
C28_EnforcedImageBlockRaises ==
    /\ Enforced
    /\ ~({"width", "height"} \subseteq DOMAIN im_last.img)
    /\ im_last.sized.raised = "AttributeError"

\* an enforcing renderer whose style has image_height: the height is the
\* style's, not the width divided by the fallback ratio
C28_EnforcedStyleHeightUsed ==
    /\ Enforced
    /\ im_last.sized.raised = "none"
    /\ ~im_last.img.height.some
    /\ im_last.sized.img_height = Px(30)
    /\ ~FallbackRatioUsed

-----------------------------------------------------------------------------
(* Properties of rendered tables, checked under SpecTables *)

TableLeft == tb_call.x
TableRight == tb_call.x + tb_call.width

\* the column of the cell and the anchor of its text lie within the table
CellWithinTable(c) ==
    /\ TableLeft <= c.x /\ c.x + tb_col_width <= TableRight
    /\ TableLeft <= c.text_x /\ c.text_x <= TableRight

\* the anchor of the text lies within the column of the cell
CellWithinColumn(c) == c.x <= c.text_x /\ c.text_x <= c.x + tb_col_width

NumCols == Len(tb_call.table.header.cells)

\* C30: for every Table the parser can produce, rendered in a context of
\* positive width w at origin x, every cell of every row, header and body, is
\* positioned within the horizontal extent [x, x + w] of the table, also
\* when a body row has more cells than the header row
C30_CellsWithinTable ==
    \A j \in 1..Len(tb_cells) : CellWithinTable(tb_cells[j])

\* where the cells are: a cell of the first NumCols columns has its column
\* within the table, and its text within its column when the column is as
\* wide as the cell padding; a cell past the header's columns starts where
\* the last column ends, or beyond
C30_HeaderColumnsWithinTable ==
    \A j \in 1..Len(tb_cells) :
        LET c == tb_cells[j] IN
          IF c.idx < NumCols
          THEN /\ TableLeft <= c.x /\ c.x + tb_col_width <= TableRight
               /\ tb_call.style.table_cell_padding <= tb_col_width => CellWithinColumn(c)
          ELSE c.x >= TableLeft + NumCols * tb_col_width

\* a body row with more cells than the header: its last cell is past the
\* right edge of the table
C30_ExtraCellOutsideTable ==
    /\ tb_pc = "done"
    /\ tb_call.width = Px(400)
    /\ \E j \in 1..Len(tb_cells) :
           /\ tb_cells[j].row >= 1 /\ tb_cells[j].idx >= NumCols
           /\ tb_cells[j].text_x > TableRight

\* a table narrower than its padding: a cell of the header is anchored past
\* the right edge
C30_NarrowTableOverflows ==
    /\ tb_pc = "done"
    /\ \E j \in 1..Len(tb_cells) :
           /\ tb_cells[j].row = 0 /\ tb_cells[j].text_x > TableRight

=============================================================================
